---- MODULE Spec2Model ----
(***************************************************************************)
(* Tone-band translation cache and verification pipeline of NijiLingo,     *)
(* as implemented by the partner chat screen (ChatScreen) and the service  *)
(* functions of services/groq.ts and services/guards.ts.                   *)
(*                                                                         *)
(* One state is one point between two JavaScript tasks: every action is    *)
(* the synchronous code that runs from the resolution of one awaited call  *)
(* (or from one user gesture) up to the next await.                        *)
(***************************************************************************)
EXTENDS Integers, Sequences, FiniteSets, TLC

(***************************************************************************)
(* Bounds of the exploration.                                              *)
(***************************************************************************)
\* disturbances explored in one behaviour: a backend call that fails or is
\* aborted, a change of the conversation partner, or a press of the translate
\* button after the first one
MaxDisturbances == 1
\* verification responses that report actionable issues in one behaviour
MaxIssues == 1
\* backend responses (resolved or rejected calls) delivered in one behaviour
MaxResponses == 9
\* the longest text handed to a guard function, in characters
MaxTextLen == 4
\* custom-tone requests made in one behaviour
MaxCustomRequests == 2
\* presses of the translate button of the translate screen in one behaviour
MaxSelfRequests == 1

(***************************************************************************)
(* Texts.  The backend is a black box: a completion returns one of the     *)
(* candidate translations.  A text is described by the pattern families of *)
(* extractModalityClass that match it.                                     *)
(***************************************************************************)
Sources == {"s1", "s2"}
Trans == {"ta", "tb"}
Partners == {"p1", "p2"}
Tones == {"casual", "business"}
Levels == {50, 100}

\* partner.language
Language(p) == IF p = "p1" THEN "en" ELSE "ko"

Langs == {Language(p) : p \in Partners}

\* which pattern tables of extractModalityClass match a text
MatchedPatterns(text) ==
  CASE text = "s1" -> {"request"}
    [] text = "s2" -> {}
    [] text = "ta" -> {"request", "confirmation"}
    [] text = "tb" -> {"confirmation"}
    [] OTHER -> {}

extractModalityClass(text) ==
  IF "request" \in MatchedPatterns(text) THEN "request"
  ELSE IF "confirmation" \in MatchedPatterns(text) THEN "confirmation"
  ELSE IF "suggestion" \in MatchedPatterns(text) THEN "suggestion"
  ELSE IF "obligation" \in MatchedPatterns(text) THEN "obligation"
  ELSE "statement"

checkModalityConsistency(originalText, translatedText) ==
  IF extractModalityClass(originalText) = "statement" THEN TRUE
  ELSE extractModalityClass(originalText) = extractModalityClass(translatedText)

(***************************************************************************)
(* Cache keys and entries.                                                 *)
(***************************************************************************)
\* The key string is
\*   PROMPT_VERSION|sourceLang->targetLang|sourceText|tone_toneBucket[_native]
\* The chat screen fixes PROMPT_VERSION, sourceLang and isNative, and the texts
\* explored here hold no separator character, so a key is given by its four
\* varying parts.
getCacheKey(tone, toneBucket, sourceText, targetLang) ==
  <<sourceText, targetLang, tone, toneBucket>>

Entry(t, rev, nc) == [translation |-> t, reverseTranslation |-> rev, noChange |-> nc]

\* the reverse translation a successful completion returns for a band: the
\* backend words it anew on every call, so each call site gets its own text
RevOf(tone, level) ==
  CASE tone = "casual" /\ level = 50 -> "rev_c50"
    [] tone = "casual" /\ level = 100 -> "rev_c100"
    [] tone = "business" /\ level = 50 -> "rev_b50"
    [] OTHER -> "rev_b100"

Res(t, rev, risk) == [translation |-> t, reverse_translation |-> rev, risk |-> risk]

NoRes == Res("", "", "")

(***************************************************************************)
(* The tone slider and the preview.                                        *)
(***************************************************************************)
sliderToToneBucket(position) ==
  IF position < -75 THEN [tone |-> "casual", bucket |-> 100]
  ELSE IF position < -25 THEN [tone |-> "casual", bucket |-> 50]
  ELSE IF position <= 25 THEN [tone |-> "_base", bucket |-> 0]
  ELSE IF position <= 75 THEN [tone |-> "business", bucket |-> 50]
  ELSE [tone |-> "business", bucket |-> 100]

getSliderBucket(value) ==
  IF value < -75 THEN -100
  ELSE IF value < -25 THEN -50
  ELSE IF value <= 25 THEN 0
  ELSE IF value <= 75 THEN 50
  ELSE 100

\* the positions at which the user releases the slider
SliderPositions == {-60, 0, 80}

\* the initial preview: no translation, no noChange property
NoPreview == Entry("", "", "undefined")

\* setPreview(prev => ({...prev, translation, reverseTranslation, noChange}))
\* with the fields of a cache entry
showCached(cached) ==
  Entry(cached.translation, cached.reverseTranslation, cached.noChange)

VARIABLES
  cache,               \* translationCacheRef.current
  runs,                \* the generation started by each press of the button
  tasks,               \* the verifyAndFixOneBand tasks each generation started
  verificationStatus,  \* bandKey -> status
  previewSourceText,
  partner,             \* partner?.id
  isTranslating,
  translationError,
  lockedSliderPosition,
  submits,             \* presses of the translate button so far
  disturbances,        \* disturbances so far
  issuesFound,         \* verification responses with actionable issues so far
  responses,           \* backend responses delivered so far
  sliderValue,         \* sliderValue and sliderBucket
  preview,             \* translation, reverseTranslation, noChange shown
  showPreview,
  isCustomActive,
  toneAdjusted,
  toneLoading,
  customs,             \* the custom-tone requests made so far
  translateDraft,      \* the translation cache kept in the app context
  call                 \* the last call of a service function and its result

\* the state of the preview panel
ui == <<sliderValue, preview, showPreview, isCustomActive, toneAdjusted>>

vars == <<cache, runs, tasks, verificationStatus, previewSourceText, partner,
          isTranslating, translationError, lockedSliderPosition, submits,
          disturbances, issuesFound, responses, sliderValue, preview,
          showPreview, isCustomActive, toneAdjusted, toneLoading, customs,
          translateDraft, call>>

RunIds == 1..(MaxDisturbances + 1)

BandKeys == {<<tone, level>> : tone \in Tones, level \in Levels}

IdleRun ==
  [pc |-> "unused", kind |-> "all", awaited |-> FALSE, src |-> "", lang |-> "",
   full |-> "", r50 |-> [tone \in Tones |-> NoRes],
   r100 |-> [tone \in Tones |-> NoRes], stage |-> [tone \in Tones |-> "idle"],
   err |-> "none", errAt |-> "none", baseOutcome |-> "none",
   wroteBase |-> FALSE, structFailed |-> FALSE, defsFailed |-> FALSE,
   slider |-> 0]

NoTask ==
  [pc |-> "none", src |-> "", lang |-> "", translation |-> "", cur |-> "",
   mean |-> FALSE, nat |-> FALSE, failed |-> FALSE, aborted |-> FALSE,
   merged |-> FALSE, slider |-> 0]

EmptyCache == [k \in {} |-> Entry("", "", "undefined")]

CustomIds == 1..MaxCustomRequests

NoCustom ==
  [pc |-> "unused", src |-> "", lang |-> "", toneText |-> "", calls |-> 0,
   result |-> NoRes]

\* translateDraft.translationCache as of the last render, the updates that
\* setTranslateDraft has queued since (merged in the order queued), whether
\* a render is due, and whether the root renders inside a setter called
\* outside an event handler
NoDraft ==
  [translationCache |-> EmptyCache, queued |-> EmptyCache, pending |-> FALSE,
   sync |-> FALSE]

\* no service function called on its own yet
NoCall == [fn |-> "none"]

Init ==
  /\ cache = EmptyCache
  /\ runs = [r \in RunIds |-> IdleRun]
  /\ tasks = [r \in RunIds |-> [b \in BandKeys |-> NoTask]]
  /\ verificationStatus = [b \in BandKeys |-> "null"]
  /\ previewSourceText = ""
  /\ partner = "p1"
  /\ isTranslating = FALSE
  /\ translationError = FALSE
  /\ lockedSliderPosition \in {"null", "50"}
  /\ submits = 0
  /\ disturbances = 0
  /\ issuesFound = 0
  /\ responses = 0
  /\ sliderValue = 0
  /\ preview = NoPreview
  /\ showPreview = FALSE
  /\ isCustomActive = FALSE
  /\ toneAdjusted = FALSE
  /\ toneLoading = FALSE
  /\ customs = [i \in CustomIds |-> NoCustom]
  /\ translateDraft = NoDraft
  /\ call = NoCall

(***************************************************************************)
(* The effect that refreshes the preview when the cache, the slider or the *)
(* previewed text changed.  React runs it after the render that follows a  *)
(* change, before the next event is handled.                               *)
(***************************************************************************)
\* the key of the band the slider selects for the previewed text
PreviewKey ==
  LET tb == sliderToToneBucket(sliderValue)
  IN getCacheKey(tb.tone, tb.bucket, previewSourceText, Language(partner))

\* the effect has something to do
EffectPending ==
  /\ previewSourceText # ""
  /\ ~isCustomActive
  /\ PreviewKey \in DOMAIN cache
  /\ showCached(cache[PreviewKey]) # preview

AutoPreviewEffect ==
  /\ EffectPending
  /\ preview' = showCached(cache[PreviewKey])
  /\ UNCHANGED <<cache, runs, tasks, verificationStatus, previewSourceText,
                 partner, isTranslating, translationError,
                 lockedSliderPosition, submits, disturbances, issuesFound,
                 responses, sliderValue, showPreview, isCustomActive,
                 toneAdjusted>>
  /\ UNCHANGED <<toneLoading, customs, translateDraft, call>>

(***************************************************************************)
(* Cache helpers.                                                          *)
(***************************************************************************)
\* translationCacheRef.current = updates: the updates replace the cache
updateTranslationCache_Replace(c, updates) == updates

\* Object.assign(translationCacheRef.current, updates)
updateTranslationCache(c, updates) == updates @@ c

BaseKey(src, lang) == getCacheKey("_base", 0, src, lang)

RequiredKeys(src, lang) ==
  {getCacheKey(tone, level, src, lang) : tone \in Tones, level \in Levels}

\* the level-0 entries keeping the reverse translation the backend returned
Level0Updates_KeepReverse(src, lang, t) ==
  [k \in {getCacheKey(tone, 0, src, lang) : tone \in Tones} |->
     Entry(t, "rev_base", "undefined")]

\* cacheResult('casual', 0, ...) and cacheResult('business', 0, ...)
Level0Updates(src, lang, t) ==
  [k \in {getCacheKey(tone, 0, src, lang) : tone \in Tones} |->
     Entry(t, src, "undefined")]

(***************************************************************************)
(* The environment: what a backend call can answer.                        *)
(***************************************************************************)
\* callGeminiAPI resolves with a text, rejects with a backend or parse
\* error ("fail"), or rejects with an AbortError ("abort")
CompletionOutcomes ==
  Trans \cup (IF disturbances < MaxDisturbances THEN {"fail", "abort"} ELSE {})

CountFailure(o) ==
  disturbances' = IF o \in {"fail", "abort"} THEN disturbances + 1
                  ELSE disturbances

(***************************************************************************)
(* generateAllToneAdjustments: the pure parts.                             *)
(***************************************************************************)
\* generateAllToneAdjustments without its early return on a complete cache
startGenerateAll_NoEarlyReturn(c, run0) ==
  IF BaseKey(run0.src, run0.lang) \in DOMAIN c
  THEN [run |-> [run0 EXCEPT !.pc = "tgtStruct",
                             !.full = c[BaseKey(run0.src, run0.lang)].translation],
        cache |-> updateTranslationCache(c,
                    Level0Updates(run0.src, run0.lang,
                                  c[BaseKey(run0.src, run0.lang)].translation))]
  ELSE [run |-> [run0 EXCEPT !.pc = "srcStruct"], cache |-> c]

\* generateAllToneAdjustments going on to the tone bands without a base
startGenerateAll_NoBase(c, run0) ==
  IF RequiredKeys(run0.src, run0.lang) \subseteq DOMAIN c
  THEN [run |-> [run0 EXCEPT !.pc = "hit"], cache |-> c]
  ELSE [run |-> [run0 EXCEPT !.pc = "tgtStruct"], cache |-> c]

\* generateAllToneAdjustments issuing the level-50 calls as soon as the base
\* is known, without structure or meaning definitions
startGenerateAll_NoAnalysis(c, run0) ==
  IF RequiredKeys(run0.src, run0.lang) \subseteq DOMAIN c
  THEN [run |-> [run0 EXCEPT !.pc = "hit"], cache |-> c]
  ELSE IF BaseKey(run0.src, run0.lang) \in DOMAIN c
  THEN [run |-> [run0 EXCEPT !.pc = "p50",
                             !.stage = [tone \in Tones |-> "call"],
                             !.full = c[BaseKey(run0.src, run0.lang)].translation],
        cache |-> updateTranslationCache(c,
                    Level0Updates(run0.src, run0.lang,
                                  c[BaseKey(run0.src, run0.lang)].translation))]
  ELSE [run |-> [run0 EXCEPT !.pc = "srcStruct"], cache |-> c]

\* the synchronous head of generateAllToneAdjustments, up to its first await
startGenerateAll(c, run0) ==
  IF RequiredKeys(run0.src, run0.lang) \subseteq DOMAIN c
  THEN [run |-> [run0 EXCEPT !.pc = "hit"], cache |-> c]
  ELSE IF BaseKey(run0.src, run0.lang) \in DOMAIN c
  THEN [run |-> [run0 EXCEPT !.pc = "tgtStruct",
                             !.full = c[BaseKey(run0.src, run0.lang)].translation],
        cache |-> updateTranslationCache(c,
                    Level0Updates(run0.src, run0.lang,
                                  c[BaseKey(run0.src, run0.lang)].translation))]
  ELSE [run |-> [run0 EXCEPT !.pc = "srcStruct"], cache |-> c]

\* translateFullSimple with the catch block of translatePartialSpacy: every
\* error, an abort included, becomes a degraded result
translateFullSimple_Degrading(o, rev) ==
  IF o \in Trans
  THEN [threw |-> FALSE, err |-> "none", result |-> Res(o, rev, "low")]
  ELSE [threw |-> FALSE, err |-> "none", result |-> Res("", rev, "high")]

\* translateFullSimple for a completion outcome: it has no catch, so a
\* backend error, an unparsable answer and an abort all escape it
translateFullSimple(o, rev) ==
  IF o \in Trans
  THEN [threw |-> FALSE, err |-> "none", result |-> Res(o, rev, "low")]
  ELSE [threw |-> TRUE, err |-> o, result |-> NoRes]

\* extractStructureSpacy for an answer of the analyzer: an analysis with
\* flexible words ("flex") or without ("noflex"), and the empty analysis
\* {tokens: []} after a timeout or an error of callSpacyAPI ("error")
extractStructureSpacy(a) ==
  [threw |-> FALSE, flexWords |-> a = "flex", failed |-> a = "error"]

\* generateMeaningDefinitions without its catch block
generateMeaningDefinitions_Rethrow(o) ==
  IF o = "defs" THEN [threw |-> FALSE, err |-> "none", failed |-> FALSE]
  ELSE [threw |-> TRUE, err |-> o, failed |-> TRUE]

\* generateMeaningDefinitions for a completion outcome: the definitions of
\* the answer, {} after a backend or parse error (failed), and an
\* AbortError thrown on
generateMeaningDefinitions(o) ==
  IF o = "defs" THEN [threw |-> FALSE, err |-> "none", failed |-> FALSE]
  ELSE IF o = "abort" THEN [threw |-> TRUE, err |-> o, failed |-> TRUE]
  ELSE [threw |-> FALSE, err |-> "none", failed |-> TRUE]

\* the catch block of translatePartialSpacy for a non-abort error
partialFailure(run) == Res(run.full, run.src, "high")

\* level 100 issued right after both level-50 calls, without the retries
after50_NoRetry(run) ==
  [run EXCEPT !.pc = "l100", !.stage = [tone \in Tones |-> "call"]]

\* after both level-50 calls: the no-change retries, or straight to level 100
after50(run) ==
  LET retry == {tone \in Tones : run.r50[tone].translation = run.full}
  IN IF retry # {}
     THEN [run EXCEPT !.pc = "retry50",
                      !.stage = [tone \in Tones |->
                                   IF tone \in retry THEN "call" ELSE "done"]]
     ELSE [run EXCEPT !.pc = "l100", !.stage = [tone \in Tones |-> "call"]]

\* after both level-100 calls: the business retry, or the final cache writes
after100(run) ==
  LET bus100Ref == IF run.r50["business"].translation = run.full
                   THEN run.full ELSE run.r50["business"].translation
  IN IF run.r100["business"].translation = bus100Ref
     THEN [run EXCEPT !.pc = "retryB100",
                      !.stage = [tone \in Tones |->
                                   IF tone = "business" THEN "call" ELSE "done"]]
     ELSE [run EXCEPT !.pc = "finish"]

\* Promise.all that resolves with the first of its promises
AllDone_Any(stage) == \E tone \in Tones : stage[tone] = "done"

\* Promise.all over the calls of a phase: every one has resolved
AllDone(stage) == \A tone \in Tones : stage[tone] = "done"

noChange50(run, tone) == run.r50[tone].translation = run.full

noChange100(run, tone) ==
  run.r100[tone].translation =
    (IF noChange50(run, tone) THEN run.full ELSE run.r50[tone].translation)

BoolStr(b) == IF b THEN "true" ELSE "false"

\* makeCachedResult that keeps the reverse translation the backend returned
makeCachedResult_KeepReverse(result, noChange, prevReverseTranslation) ==
  result

makeCachedResult(result, noChange, prevReverseTranslation) ==
  IF noChange THEN [result EXCEPT !.reverse_translation = prevReverseTranslation]
  ELSE result

\* the entry cacheResult writes for one band at the end of a generation
finalEntry(run, tone, level) ==
  LET result == IF level = 50
                THEN makeCachedResult(run.r50[tone], noChange50(run, tone), run.src)
                ELSE makeCachedResult(run.r100[tone], noChange100(run, tone),
                       IF noChange50(run, tone) THEN run.src
                       ELSE run.r50[tone].reverse_translation)
      nc == IF level = 50 THEN noChange50(run, tone) ELSE noChange100(run, tone)
  IN Entry(result.translation, result.reverse_translation, BoolStr(nc))

\* the final writes without the two cacheResult calls of level 100
finalUpdates_Only50(run) ==
  [k \in {getCacheKey(tone, 50, run.src, run.lang) : tone \in Tones} |->
     finalEntry(run, k[3], k[4])]

finalUpdates(run) ==
  [k \in RequiredKeys(run.src, run.lang) |-> finalEntry(run, k[3], k[4])]

\* verifyAndFixOneBand called for every band, whatever its noChange flag
needsVerification_Always(run, tone, level) == TRUE

\* which bands get a verifyAndFixOneBand task
needsVerification(run, tone, level) ==
  IF level = 50 THEN ~noChange50(run, tone) ELSE ~noChange100(run, tone)

spawnedTasks(run) ==
  [b \in BandKeys |->
     IF needsVerification(run, b[1], b[2])
     THEN [pc |-> "verifying", src |-> run.src, lang |-> run.lang,
           translation |-> (IF b[2] = 50 THEN run.r50[b[1]].translation
                            ELSE run.r100[b[1]].translation),
           cur |-> "", mean |-> FALSE, nat |-> FALSE, failed |-> FALSE,
           aborted |-> FALSE, merged |-> FALSE, slider |-> run.slider]
     ELSE NoTask]

\* an error escapes generateAllToneAdjustments: the promise rejects
rejected(run, o) ==
  [run EXCEPT !.pc = "rejected", !.err = o, !.errAt = run.pc,
              !.r50 = [tone \in Tones |-> NoRes],
              !.r100 = [tone \in Tones |-> NoRes],
              !.stage = [tone \in Tones |-> "idle"]]

(***************************************************************************)
(* What follows the code of a generation step: the final cache writes and  *)
(* the start of the verification tasks when the generation is complete,    *)
(* and the continuation of handleConvert when it awaited the generation    *)
(* (the catch of preGenerateToneAdjustments otherwise).                    *)
(***************************************************************************)
\* the slider position a lock stores
LockedPosition == IF lockedSliderPosition = "50" THEN 50 ELSE 0

\* handleConvert stopping at the base band after a locked generation
afterLockedGenerate_ShowBase(run1, c2) ==
  LET baseCacheKey == getCacheKey("_base", 0, run1.src, run1.lang)
  IN /\ preview' = IF baseCacheKey \in DOMAIN c2
                   THEN showCached(c2[baseCacheKey]) ELSE preview
     /\ showPreview' = TRUE
     /\ UNCHANGED <<sliderValue, isCustomActive, toneAdjusted>>

\* handleConvert after "await generateAllToneAdjustments" with a lock: the
\* slider goes to the locked position and the preview shows that band
afterLockedGenerate(run1, c2) ==
  LET tb == sliderToToneBucket(LockedPosition)
      lockKey == getCacheKey(tb.tone, tb.bucket, run1.src, run1.lang)
  IN /\ toneAdjusted' = TRUE
     /\ sliderValue' = getSliderBucket(LockedPosition)
     /\ preview' = IF lockKey \in DOMAIN c2 THEN showCached(c2[lockKey])
                   ELSE preview
     /\ showPreview' = TRUE
     /\ UNCHANGED isCustomActive

\* handleConvert after "await generateAndCacheUiBuckets": the preview shows
\* the base band
afterBaseGenerate(run1, c2) ==
  LET baseCacheKey == BaseKey(run1.src, run1.lang)
  IN /\ preview' = IF baseCacheKey \in DOMAIN c2
                   THEN showCached(c2[baseCacheKey]) ELSE preview
     /\ showPreview' = TRUE
     /\ UNCHANGED <<sliderValue, isCustomActive, toneAdjusted>>

\* the cache, the generation, its tasks and the flags after a step
CommitState(r, run1, c1, handlerEnds, handlerFails) ==
  LET finish == run1.pc = "finish"
  IN /\ runs' = [runs EXCEPT ![r] = IF finish THEN [run1 EXCEPT !.pc = "done"]
                                     ELSE run1]
     /\ cache' = IF finish THEN updateTranslationCache(c1, finalUpdates(run1))
                           ELSE c1
     /\ tasks' = IF finish THEN [tasks EXCEPT ![r] = spawnedTasks(run1)]
                           ELSE tasks
     /\ verificationStatus' =
          IF finish
          THEN [b \in BandKeys |->
                  IF needsVerification(run1, b[1], b[2]) THEN "verifying"
                  ELSE verificationStatus[b]]
          ELSE verificationStatus
     /\ isTranslating' = IF handlerEnds THEN FALSE ELSE isTranslating
     /\ translationError' = IF handlerFails THEN TRUE ELSE translationError

Commit(r, run1, c1, handlerEnds, handlerFails) ==
  /\ CommitState(r, run1, c1, handlerEnds, handlerFails)
  /\ IF handlerEnds /\ ~handlerFails
     THEN IF run1.awaited THEN afterLockedGenerate(run1, cache')
          ELSE afterBaseGenerate(run1, cache')
     ELSE UNCHANGED ui

\* a step of a generation whose caller, if it awaits it, resumes at its end
Step(r, run1, c1) ==
  Commit(r, run1, c1,
         run1.awaited /\ run1.pc \in {"finish", "rejected", "hit"},
         run1.awaited /\ run1.pc = "rejected")

(***************************************************************************)
(* handleConvert                                                           *)
(***************************************************************************)
HandleConvert(text) ==
  /\ UNCHANGED responses
  /\ ~isTranslating
  /\ submits = 0 \/ disturbances < MaxDisturbances
  /\ ~EffectPending
  /\ submits' = submits + 1
  /\ disturbances' = IF submits = 0 THEN disturbances ELSE disturbances + 1
  /\ previewSourceText' = text
  /\ LET r == submits + 1
         lang == Language(partner)
         isLocked == lockedSliderPosition # "null"
         run0 == [IdleRun EXCEPT !.src = text, !.lang = lang,
                                 !.slider = sliderValue]
         reset == /\ showPreview' = FALSE
                  /\ toneAdjusted' = FALSE
                  /\ isCustomActive' = FALSE
                  /\ sliderValue' = 0
                  /\ UNCHANGED preview
     IN IF BaseKey(text, lang) \in DOMAIN cache /\ ~isLocked
        THEN \* base cache hit: preGenerateToneAdjustments, not awaited
             LET st == startGenerateAll(cache, run0)
             IN /\ CommitState(r, st.run, st.cache, FALSE, FALSE)
                /\ preview' = showCached(cache[BaseKey(text, lang)])
                /\ showPreview' = TRUE
                /\ toneAdjusted' = FALSE
                /\ sliderValue' = 0
                /\ UNCHANGED isCustomActive
        ELSE IF isLocked
        THEN LET st == startGenerateAll(cache, [run0 EXCEPT !.awaited = TRUE])
             IN /\ runs' = [runs EXCEPT ![r] = st.run]
                /\ cache' = st.cache
                /\ isTranslating' = (st.run.pc # "hit")
                /\ translationError' = FALSE
                /\ UNCHANGED <<tasks, verificationStatus>>
                /\ IF st.run.pc = "hit"
                   THEN /\ toneAdjusted' = TRUE
                        /\ sliderValue' = getSliderBucket(LockedPosition)
                        /\ showPreview' = TRUE
                        /\ isCustomActive' = FALSE
                        /\ LET tb == sliderToToneBucket(LockedPosition)
                               lockKey == getCacheKey(tb.tone, tb.bucket,
                                                      text, lang)
                           IN preview' = IF lockKey \in DOMAIN st.cache
                                         THEN showCached(st.cache[lockKey])
                                         ELSE preview
                   ELSE reset
        ELSE \* generateAndCacheUiBuckets({tone: '_base', skipPartial: true})
             /\ runs' = [runs EXCEPT ![r] = [run0 EXCEPT !.kind = "base",
                                                         !.awaited = TRUE,
                                                         !.pc = "srcStruct"]]
             /\ isTranslating' = TRUE
             /\ translationError' = FALSE
             /\ UNCHANGED <<cache, tasks, verificationStatus>>
             /\ reset
  /\ UNCHANGED <<partner, lockedSliderPosition, issuesFound>>
  /\ UNCHANGED <<toneLoading, customs, translateDraft, call>>

(***************************************************************************)
(* The awaits of generateAllToneAdjustments, in order.                     *)
(***************************************************************************)
\* extractStructureSpacy(sourceText) resolves (it never rejects)
SrcStructResolve(r) ==
  /\ responses < MaxResponses
  /\ responses' = responses + 1
  /\ runs[r].pc = "srcStruct"
  /\ ~EffectPending
  /\ runs' = [runs EXCEPT ![r].pc = "baseCall"]
  /\ UNCHANGED <<cache, tasks, verificationStatus, previewSourceText, partner,
                 isTranslating, translationError, lockedSliderPosition,
                 submits, disturbances, issuesFound>>
  /\ UNCHANGED ui
  /\ UNCHANGED <<toneLoading, customs, translateDraft, call>>

\* translateFullSimple for the base band resolves or rejects
BaseResolve(r, o) ==
  /\ responses < MaxResponses
  /\ responses' = responses + 1
  /\ runs[r].pc = "baseCall"
  /\ ~EffectPending
  /\ o \in CompletionOutcomes
  /\ CountFailure(o)
  /\ LET run == [runs[r] EXCEPT !.baseOutcome = o]
         fullResult == translateFullSimple(o, "rev_base")
         t == fullResult.result.translation
         c1 == updateTranslationCache(cache,
                 BaseKey(run.src, run.lang) :> Entry(t, run.src, "undefined"))
     IN IF fullResult.threw
        THEN Step(r, rejected(run, fullResult.err), cache)
        ELSE IF run.kind = "base"
        THEN \* back in handleConvert: preGenerateToneAdjustments
             LET st == startGenerateAll(c1, [run EXCEPT !.kind = "all",
                                                        !.awaited = FALSE,
                                                        !.wroteBase = TRUE])
             IN Commit(r, st.run, st.cache, TRUE, FALSE)
        ELSE Step(r, [run EXCEPT !.pc = "tgtStruct", !.full = t,
                                 !.wroteBase = TRUE],
                  updateTranslationCache(c1, Level0Updates(run.src, run.lang, t)))
  /\ UNCHANGED <<previewSourceText, partner, lockedSliderPosition, submits,
                 issuesFound>>
  /\ UNCHANGED <<toneLoading, customs, translateDraft, call>>

\* extractStructureSpacy(fullResult.translation) resolves; without flexible
\* words generateMeaningDefinitions returns {} without a call
TgtStructResolve(r, a) ==
  /\ responses < MaxResponses
  /\ responses' = responses + 1
  /\ runs[r].pc = "tgtStruct"
  /\ ~EffectPending
  /\ a \in {"flex", "noflex"}
           \cup (IF disturbances < MaxDisturbances THEN {"error"} ELSE {})
  /\ disturbances' = IF a = "error" THEN disturbances + 1 ELSE disturbances
  /\ LET run == runs[r]
         spacyResult == extractStructureSpacy(a)
     IN IF spacyResult.threw THEN Step(r, rejected(run, a), cache)
        ELSE IF spacyResult.flexWords
        THEN Step(r, [run EXCEPT !.pc = "defs"], cache)
        ELSE Step(r, [run EXCEPT !.pc = "p50",
                                 !.structFailed = spacyResult.failed,
                                 !.stage = [tone \in Tones |-> "call"]],
                  cache)
  /\ UNCHANGED <<previewSourceText, partner, lockedSliderPosition, submits,
                 issuesFound>>
  /\ UNCHANGED <<toneLoading, customs, translateDraft, call>>

\* generateMeaningDefinitions resolves or rejects
DefsResolve(r, o) ==
  /\ responses < MaxResponses
  /\ responses' = responses + 1
  /\ runs[r].pc = "defs"
  /\ ~EffectPending
  /\ o \in {"defs"} \cup (CompletionOutcomes \ Trans)
  /\ CountFailure(o)
  /\ LET run == runs[r]
         definitions == generateMeaningDefinitions(o)
     IN IF definitions.threw
        THEN Step(r, rejected(run, definitions.err), cache)
        ELSE \* the definitions, or {} after a failure, only reach the prompts
             Step(r, [run EXCEPT !.pc = "p50",
                                 !.defsFailed = definitions.failed,
                                 !.stage = [tone \in Tones |-> "call"]],
                  cache)
  /\ UNCHANGED <<previewSourceText, partner, lockedSliderPosition, submits,
                 issuesFound>>
  /\ UNCHANGED <<toneLoading, customs, translateDraft, call>>

\* one of the two level-50 translatePartialSpacy calls gets its completion
Partial50Resolve(r, tone, o) ==
  /\ responses < MaxResponses
  /\ responses' = responses + 1
  /\ runs[r].pc = "p50"
  /\ runs[r].stage[tone] = "call"
  /\ ~EffectPending
  /\ o \in CompletionOutcomes
  /\ CountFailure(o)
  /\ LET run == runs[r]
         settle(res) == LET run1 == [run EXCEPT !.r50[tone] = res,
                                                !.stage[tone] = "done"]
                        IN IF AllDone(run1.stage) THEN after50(run1) ELSE run1
     IN IF o = "abort" THEN Step(r, rejected(run, o), cache)
        ELSE IF o = "fail" THEN Step(r, settle(partialFailure(run)), cache)
        ELSE IF checkModalityConsistency(run.src, o)
        THEN Step(r, settle(Res(o, RevOf(tone, 50), "low")), cache)
        ELSE \* modality guard, no fallbackToPreviousLevel: translateFullSimple
             Step(r, [run EXCEPT !.stage[tone] = "fallback"], cache)
  /\ UNCHANGED <<previewSourceText, partner, lockedSliderPosition, submits,
                 issuesFound>>
  /\ UNCHANGED <<toneLoading, customs, translateDraft, call>>

\* the translateFullSimple fallback inside translatePartialSpacy resolves
Fallback50Resolve(r, tone, o) ==
  /\ responses < MaxResponses
  /\ responses' = responses + 1
  /\ runs[r].pc = "p50"
  /\ runs[r].stage[tone] = "fallback"
  /\ ~EffectPending
  /\ o \in CompletionOutcomes
  /\ CountFailure(o)
  /\ LET run == runs[r]
         settle(res) == LET run1 == [run EXCEPT !.r50[tone] = res,
                                                !.stage[tone] = "done"]
                        IN IF AllDone(run1.stage) THEN after50(run1) ELSE run1
         fallbackResult == translateFullSimple(o, RevOf(tone, 50))
     IN IF fallbackResult.err = "abort" THEN Step(r, rejected(run, o), cache)
        ELSE IF fallbackResult.threw
        THEN Step(r, settle(partialFailure(run)), cache)
        ELSE Step(r, settle(fallbackResult.result), cache)
  /\ UNCHANGED <<previewSourceText, partner, lockedSliderPosition, submits,
                 issuesFound>>
  /\ UNCHANGED <<toneLoading, customs, translateDraft, call>>

\* a no-change retry of level 50 (translateFullSimple) resolves or rejects
Retry50Resolve(r, tone, o) ==
  /\ responses < MaxResponses
  /\ responses' = responses + 1
  /\ runs[r].pc = "retry50"
  /\ runs[r].stage[tone] = "call"
  /\ ~EffectPending
  /\ o \in CompletionOutcomes
  /\ CountFailure(o)
  /\ LET run == runs[r]
         result == translateFullSimple(o, RevOf(tone, 50))
         run1 == [run EXCEPT !.r50[tone] = result.result,
                             !.stage[tone] = "done"]
     IN IF result.threw THEN Step(r, rejected(run, result.err), cache)
        ELSE IF AllDone(run1.stage)
        THEN Step(r, [run1 EXCEPT !.pc = "l100",
                                  !.stage = [t \in Tones |-> "call"]], cache)
        ELSE Step(r, run1, cache)
  /\ UNCHANGED <<previewSourceText, partner, lockedSliderPosition, submits,
                 issuesFound>>
  /\ UNCHANGED <<toneLoading, customs, translateDraft, call>>

\* the casual level-100 call (translateFullSimple) resolves or rejects
Casual100Resolve(r, o) ==
  /\ responses < MaxResponses
  /\ responses' = responses + 1
  /\ runs[r].pc = "l100"
  /\ runs[r].stage["casual"] = "call"
  /\ ~EffectPending
  /\ o \in CompletionOutcomes
  /\ CountFailure(o)
  /\ LET run == runs[r]
         casual100Full == translateFullSimple(o, RevOf("casual", 100))
         run1 == [run EXCEPT !.r100["casual"] = casual100Full.result,
                             !.stage["casual"] = "done"]
     IN IF casual100Full.threw
        THEN Step(r, rejected(run, casual100Full.err), cache)
        ELSE IF AllDone(run1.stage) THEN Step(r, after100(run1), cache)
        ELSE Step(r, run1, cache)
  /\ UNCHANGED <<previewSourceText, partner, lockedSliderPosition, submits,
                 issuesFound>>
  /\ UNCHANGED <<toneLoading, customs, translateDraft, call>>

\* the business level-100 call (translatePartialSpacy with
\* fallbackToPreviousLevel: finalBusiness50) gets its completion
Business100Resolve(r, o) ==
  /\ responses < MaxResponses
  /\ responses' = responses + 1
  /\ runs[r].pc = "l100"
  /\ runs[r].stage["business"] = "call"
  /\ ~EffectPending
  /\ o \in CompletionOutcomes
  /\ CountFailure(o)
  /\ LET run == runs[r]
         settle(res) == LET run1 == [run EXCEPT !.r100["business"] = res,
                                                !.stage["business"] = "done"]
                        IN IF AllDone(run1.stage) THEN after100(run1) ELSE run1
     IN IF o = "abort" THEN Step(r, rejected(run, o), cache)
        ELSE IF o = "fail" THEN Step(r, settle(partialFailure(run)), cache)
        ELSE IF checkModalityConsistency(run.src, o)
        THEN Step(r, settle(Res(o, RevOf("business", 100), "low")), cache)
        ELSE Step(r, settle(run.r50["business"]), cache)
  /\ UNCHANGED <<previewSourceText, partner, lockedSliderPosition, submits,
                 issuesFound>>
  /\ UNCHANGED <<toneLoading, customs, translateDraft, call>>

\* the no-change retry of business 100 (translateFullSimple) resolves
RetryBusiness100Resolve(r, o) ==
  /\ responses < MaxResponses
  /\ responses' = responses + 1
  /\ runs[r].pc = "retryB100"
  /\ ~EffectPending
  /\ o \in CompletionOutcomes
  /\ CountFailure(o)
  /\ LET run == runs[r]
         result == translateFullSimple(o, RevOf("business", 100))
     IN IF result.threw THEN Step(r, rejected(run, result.err), cache)
        ELSE Step(r, [run EXCEPT !.r100["business"] = result.result,
                                 !.stage = [t \in Tones |-> "done"],
                                 !.pc = "finish"], cache)
  /\ UNCHANGED <<previewSourceText, partner, lockedSliderPosition, submits,
                 issuesFound>>
  /\ UNCHANGED <<toneLoading, customs, translateDraft, call>>

(***************************************************************************)
(* verifyAndFixOneBand                                                     *)
(***************************************************************************)
\* applyFix without the re-evaluation of the 100% band after a 50% fix
applyFix_NoRecompute(c, tone, bucket, src, lang, fixedT, fixedRev) ==
  LET cacheKey == getCacheKey(tone, bucket, src, lang)
      c1 == updateTranslationCache(c,
              cacheKey :> Entry(fixedT, fixedRev, "undefined"))
      otherBucket == IF bucket = 50 THEN 100 ELSE 50
      otherKey == getCacheKey(tone, otherBucket, src, lang)
  IN IF otherKey \in DOMAIN c1 /\ c1[otherKey].translation = fixedT
     THEN updateTranslationCache(c1,
            (otherKey :> Entry(c1[otherKey].translation, fixedRev, "true"))
            @@ (cacheKey :> Entry(fixedT, fixedRev, "true")))
     ELSE c1

\* applyFix patching the translation field of the cached entry in place
applyFix_PatchTranslation(c, tone, bucket, src, lang, fixedT, fixedRev) ==
  LET cacheKey == getCacheKey(tone, bucket, src, lang)
  IN IF cacheKey \in DOMAIN c
     THEN [c EXCEPT ![cacheKey].translation = fixedT]
     ELSE updateTranslationCache(c,
            cacheKey :> Entry(fixedT, fixedRev, "undefined"))

\* applyFix, the preview: the fix is shown when the slider, as the task saw
\* it when its generation was requested, selects the fixed band
applyFixPreview(p, slider, tone, bucket, fixedT, fixedRev) ==
  LET currentToneBucket == sliderToToneBucket(slider)
  IN IF currentToneBucket.tone = tone /\ currentToneBucket.bucket = bucket
     THEN [p EXCEPT !.translation = fixedT, !.reverseTranslation = fixedRev]
     ELSE p

\* applyFix without its branch for a fix that equals the sibling band
applyFix_NoMerge(c, tone, bucket, src, lang, fixedT, fixedRev) ==
  LET cacheKey == getCacheKey(tone, bucket, src, lang)
      c1 == updateTranslationCache(c,
              cacheKey :> Entry(fixedT, fixedRev, "undefined"))
      otherBucket == IF bucket = 50 THEN 100 ELSE 50
      otherKey == getCacheKey(tone, otherBucket, src, lang)
  IN IF bucket = 50 /\ otherKey \in DOMAIN c1
     THEN LET newNoChange == BoolStr(c1[otherKey].translation = fixedT)
          IN IF c1[otherKey].noChange # newNoChange
             THEN updateTranslationCache(c1,
                    otherKey :> [c1[otherKey] EXCEPT !.noChange = newNoChange])
             ELSE c1
     ELSE c1

\* applyFix: the cache after a fix of band (tone, bucket) has been applied
applyFix(c, tone, bucket, src, lang, fixedT, fixedRev) ==
  LET cacheKey == getCacheKey(tone, bucket, src, lang)
      c1 == updateTranslationCache(c,
              cacheKey :> Entry(fixedT, fixedRev, "undefined"))
      otherBucket == IF bucket = 50 THEN 100 ELSE 50
      otherKey == getCacheKey(tone, otherBucket, src, lang)
  IN IF otherKey \in DOMAIN c1 /\ c1[otherKey].translation = fixedT
     THEN updateTranslationCache(c1,
            (otherKey :> Entry(c1[otherKey].translation, fixedRev, "true"))
            @@ (cacheKey :> Entry(fixedT, fixedRev, "true")))
     ELSE IF bucket = 50 /\ otherKey \in DOMAIN c1
     THEN LET newNoChange == BoolStr(c1[otherKey].translation = fixedT)
          IN IF c1[otherKey].noChange # newNoChange
             THEN updateTranslationCache(c1,
                    otherKey :> [c1[otherKey] EXCEPT !.noChange = newNoChange])
             ELSE c1
     ELSE c1

\* whether applyFix found the sibling band holding the fixed text
fixEqualsSibling(c, tone, bucket, src, lang, fixedT) ==
  LET otherKey == getCacheKey(tone, IF bucket = 50 THEN 100 ELSE 50, src, lang)
  IN otherKey \in DOMAIN c /\ c[otherKey].translation = fixedT

\* verifyAndFixOneBand handing the text it was started with to fixNaturalness
afterMeaningFix_PreFixText(task, fixed) ==
  IF task.nat
  THEN [task EXCEPT !.pc = "fixN", !.cur = task.translation]
  ELSE [task EXCEPT !.pc = "ended", !.translation = "", !.cur = "",
                    !.mean = FALSE, !.nat = FALSE]

\* what fixMeaningIssues / fixNaturalness return for a completion outcome
fixResult(o, translation, rev) ==
  IF o = "fail" THEN [translation |-> translation, reverse_translation |-> ""]
  ELSE [translation |-> o, reverse_translation |-> rev]

ended(task, fl) ==
  [task EXCEPT !.pc = "ended", !.translation = "", !.cur = "",
               !.mean = FALSE, !.nat = FALSE,
               !.failed = @ \/ fl = "fail", !.aborted = @ \/ fl = "abort"]

\* the filter keeping issues of every severity
actionable_AnySeverity(o) == o \in {"M", "N", "MN", "low"}

\* actionableIssues.length > 0: the response holds an issue of severity high
\* or medium ("M": of a meaning type, "N": of a naturalness type, "MN": of
\* both); "low" is a response whose issues are all of severity low
actionable(o) == o \in {"M", "N", "MN"}

\* verifyAndFixOneBand without its catch: an aborted verification leaves the
\* status as it was
statusAfterVerify_NoCatch(o) ==
  IF o = "abort" THEN "verifying"
  ELSE IF o \in {"M", "N", "MN"} THEN "fixing"
  ELSE "passed"

\* verifyTranslation rethrowing every error to the catch of the task
statusAfterVerify_Rethrow(o) ==
  IF o \in {"pass", "low"} THEN "passed"
  ELSE IF o \in {"fail", "abort"} THEN "null"
  ELSE "fixing"

\* verifyAndFixOneBand verifying the band again after the meaning fix
afterMeaningFix_Reverify(task, fixed) ==
  [task EXCEPT !.pc = "verifying", !.translation = fixed.translation,
               !.cur = ""]

\* the task after applyFix of the meaning fix: on to fixNaturalness with
\* currentTranslation = fixed.translation, or done
afterMeaningFix(task, fixed) ==
  IF task.nat
  THEN [task EXCEPT !.pc = "fixN", !.cur = fixed.translation]
  ELSE ended(task, "done")

\* the status verifyAndFixOneBand sets once verifyTranslation has settled:
\* verifyTranslation turns a failure into {pass: true, issues: []}, an abort
\* reaches the catch of the task
statusAfterVerify(o) ==
  IF o = "abort" THEN "null"
  ELSE IF actionable(o) THEN "fixing"
  ELSE "passed"

VerifyOutcomes ==
  {"pass", "low"} \cup (IF issuesFound < MaxIssues THEN {"M", "N", "MN"} ELSE {})
           \cup (IF disturbances < MaxDisturbances THEN {"fail", "abort"} ELSE {})

\* verifyTranslation resolves (a failure is turned into a pass) or aborts
VerifyResolve(r, b, o) ==
  /\ responses < MaxResponses
  /\ responses' = responses + 1
  /\ tasks[r][b].pc = "verifying"
  /\ ~EffectPending
  /\ o \in VerifyOutcomes
  /\ CountFailure(o)
  /\ issuesFound' = IF o \in {"M", "N", "MN"} THEN issuesFound + 1 ELSE issuesFound
  /\ LET task == tasks[r][b]
     IN /\ tasks' = [tasks EXCEPT ![r][b] =
             IF statusAfterVerify(o) # "fixing" THEN ended(task, o)
             ELSE [task EXCEPT !.pc = IF o = "N" THEN "fixN" ELSE "fixM",
                               !.cur = task.translation,
                               !.mean = (o \in {"M", "MN"}),
                               !.nat = (o \in {"N", "MN"})]]
        /\ verificationStatus' =
             [verificationStatus EXCEPT ![b] = statusAfterVerify(o)]
  /\ UNCHANGED <<cache, runs, previewSourceText, partner, isTranslating,
                 translationError, lockedSliderPosition, submits>>
  /\ UNCHANGED ui
  /\ UNCHANGED <<toneLoading, customs, translateDraft, call>>

\* fixMeaningIssues resolves (a failure returns the text unchanged) or aborts
FixMeaningResolve(r, b, o) ==
  /\ responses < MaxResponses
  /\ responses' = responses + 1
  /\ tasks[r][b].pc = "fixM"
  /\ ~EffectPending
  /\ o \in CompletionOutcomes
  /\ CountFailure(o)
  /\ LET task == tasks[r][b]
         fixed == fixResult(o, task.cur, "rev_fixM")
     IN IF o = "abort"
        THEN /\ tasks' = [tasks EXCEPT ![r][b] = ended(task, o)]
             /\ verificationStatus' = [verificationStatus EXCEPT ![b] = "null"]
             /\ cache' = cache
             /\ preview' = preview
        ELSE /\ cache' = applyFix(cache, b[1], b[2], task.src, task.lang,
                                  fixed.translation, fixed.reverse_translation)
             /\ preview' = applyFixPreview(preview, task.slider, b[1], b[2],
                                           fixed.translation,
                                           fixed.reverse_translation)
             /\ tasks' = [tasks EXCEPT ![r][b] =
                  LET t1 == [task EXCEPT
                               !.merged = @ \/ fixEqualsSibling(cache, b[1], b[2],
                                           task.src, task.lang, fixed.translation),
                               !.failed = @ \/ o = "fail"]
                  IN afterMeaningFix(t1, fixed)]
             /\ verificationStatus' =
                  IF task.nat THEN verificationStatus
                  ELSE [verificationStatus EXCEPT ![b] = "passed"]
  /\ UNCHANGED <<runs, previewSourceText, partner, isTranslating,
                 translationError, lockedSliderPosition, submits, issuesFound,
                 sliderValue, showPreview, isCustomActive, toneAdjusted>>
  /\ UNCHANGED <<toneLoading, customs, translateDraft, call>>

\* fixNaturalness resolves (a failure returns the text unchanged) or aborts
FixNaturalResolve(r, b, o) ==
  /\ responses < MaxResponses
  /\ responses' = responses + 1
  /\ tasks[r][b].pc = "fixN"
  /\ ~EffectPending
  /\ o \in CompletionOutcomes
  /\ CountFailure(o)
  /\ LET task == tasks[r][b]
         fixed == fixResult(o, task.cur, "rev_fixN")
     IN IF o = "abort"
        THEN /\ tasks' = [tasks EXCEPT ![r][b] = ended(task, o)]
             /\ verificationStatus' = [verificationStatus EXCEPT ![b] = "null"]
             /\ cache' = cache
             /\ preview' = preview
        ELSE /\ cache' = applyFix(cache, b[1], b[2], task.src, task.lang,
                                  fixed.translation, fixed.reverse_translation)
             /\ preview' = applyFixPreview(preview, task.slider, b[1], b[2],
                                           fixed.translation,
                                           fixed.reverse_translation)
             /\ tasks' = [tasks EXCEPT ![r][b] =
                  ended([task EXCEPT
                           !.merged = @ \/ fixEqualsSibling(cache, b[1], b[2],
                                       task.src, task.lang, fixed.translation)],
                        o)]
             /\ verificationStatus' = [verificationStatus EXCEPT ![b] = "passed"]
  /\ UNCHANGED <<runs, previewSourceText, partner, isTranslating,
                 translationError, lockedSliderPosition, submits, issuesFound,
                 sliderValue, showPreview, isCustomActive, toneAdjusted>>
  /\ UNCHANGED <<toneLoading, customs, translateDraft, call>>

(***************************************************************************)
(* The conversation partner changes: the effect on partner?.id             *)
(***************************************************************************)
ChangePartner(p) ==
  /\ UNCHANGED responses
  /\ p # partner
  /\ disturbances < MaxDisturbances
  /\ ~EffectPending
  /\ disturbances' = disturbances + 1
  /\ partner' = p
  /\ previewSourceText' = ""
  /\ translationError' = FALSE
  /\ cache' = EmptyCache
  /\ toneAdjusted' = FALSE
  /\ isCustomActive' = FALSE
  /\ sliderValue' = 0
  /\ showPreview' = FALSE
  /\ preview' = NoPreview
  /\ UNCHANGED <<runs, tasks, verificationStatus, isTranslating,
                 lockedSliderPosition, submits, issuesFound>>
  /\ UNCHANGED <<toneLoading, customs, translateDraft, call>>

\* the answers that can arrive for a call awaited at the position "at": none
\* while the generation or the task is at another position
Answers(pc, at, outcomes) == IF pc = at THEN outcomes ELSE {}

Next ==
  \/ \E text \in Sources : HandleConvert(text)
  \/ \E r \in RunIds : SrcStructResolve(r)
  \/ \E r \in RunIds :
       \E o \in Answers(runs[r].pc, "baseCall", Trans \cup {"fail", "abort"}) :
         BaseResolve(r, o)
  \/ \E r \in RunIds :
       \E a \in Answers(runs[r].pc, "tgtStruct", {"flex", "noflex", "error"}) :
         TgtStructResolve(r, a)
  \/ \E r \in RunIds :
       \E o \in Answers(runs[r].pc, "defs", {"defs", "fail", "abort"}) :
         DefsResolve(r, o)
  \/ \E r \in RunIds, tone \in Tones :
       \E o \in Answers(runs[r].pc, "p50", Trans \cup {"fail", "abort"}) :
         Partial50Resolve(r, tone, o)
  \/ \E r \in RunIds, tone \in Tones :
       \E o \in Answers(runs[r].pc, "p50", Trans \cup {"fail", "abort"}) :
         Fallback50Resolve(r, tone, o)
  \/ \E r \in RunIds, tone \in Tones :
       \E o \in Answers(runs[r].pc, "retry50", Trans \cup {"fail", "abort"}) :
         Retry50Resolve(r, tone, o)
  \/ \E r \in RunIds :
       \E o \in Answers(runs[r].pc, "l100", Trans \cup {"fail", "abort"}) :
         Casual100Resolve(r, o)
  \/ \E r \in RunIds :
       \E o \in Answers(runs[r].pc, "l100", Trans \cup {"fail", "abort"}) :
         Business100Resolve(r, o)
  \/ \E r \in RunIds :
       \E o \in Answers(runs[r].pc, "retryB100", Trans \cup {"fail", "abort"}) :
         RetryBusiness100Resolve(r, o)
  \/ \E r \in RunIds, b \in BandKeys :
       \E o \in Answers(tasks[r][b].pc, "verifying",
                        {"pass", "low", "M", "N", "MN", "fail", "abort"}) :
         VerifyResolve(r, b, o)
  \/ \E r \in RunIds, b \in BandKeys :
       \E o \in Answers(tasks[r][b].pc, "fixM", Trans \cup {"fail", "abort"}) :
         FixMeaningResolve(r, b, o)
  \/ \E r \in RunIds, b \in BandKeys :
       \E o \in Answers(tasks[r][b].pc, "fixN", Trans \cup {"fail", "abort"}) :
         FixNaturalResolve(r, b, o)
  \/ \E p \in Partners : ChangePartner(p)
  \/ AutoPreviewEffect

Spec == Init /\ [][Next]_vars

\* every backend call of a verification task eventually returns or fails
\* (callGeminiAPI sets no timeout: this is an assumption on the backend), and
\* React eventually runs a pending effect
TaskCallsReturn ==
  /\ \A r \in RunIds, b \in BandKeys :
       /\ WF_vars(\E o \in Answers(tasks[r][b].pc, "verifying",
                                   {"pass", "low", "M", "N", "MN", "fail", "abort"}) :
                    VerifyResolve(r, b, o))
       /\ WF_vars(\E o \in Answers(tasks[r][b].pc, "fixM", Trans \cup {"fail", "abort"}) :
                    FixMeaningResolve(r, b, o))
       /\ WF_vars(\E o \in Answers(tasks[r][b].pc, "fixN", Trans \cup {"fail", "abort"}) :
                    FixNaturalResolve(r, b, o))
  /\ WF_vars(AutoPreviewEffect)

SpecLive == Init /\ [][Next]_vars /\ TaskCallsReturn

(***************************************************************************)
(* A session in progress.  The text "s1" was translated earlier with no    *)
(* lock: every band came out identical to the base (the retries returned   *)
(* the same text), so no verification task was started, and the user then  *)
(* opened the nuance slider (handleToneAdjust with all four bands cached). *)
(* From there the user also moves the slider and toggles the custom tone.  *)
(***************************************************************************)
EarlierRun ==
  [IdleRun EXCEPT !.pc = "done", !.src = "s1", !.lang = Language("p1"),
                  !.full = "ta",
                  !.r50 = [tone \in Tones |-> Res("ta", RevOf(tone, 50), "low")],
                  !.r100 = [tone \in Tones |-> Res("ta", RevOf(tone, 100), "low")]]

InitSession ==
  /\ cache = updateTranslationCache(
               updateTranslationCache(
                 BaseKey("s1", Language("p1")) :> Entry("ta", "s1", "undefined"),
                 Level0Updates("s1", Language("p1"), "ta")),
               finalUpdates(EarlierRun))
  /\ runs = [r \in RunIds |-> IdleRun]
  /\ tasks = [r \in RunIds |-> [b \in BandKeys |-> NoTask]]
  /\ verificationStatus = [b \in BandKeys |-> "null"]
  /\ previewSourceText = "s1"
  /\ partner = "p1"
  /\ isTranslating = FALSE
  /\ translationError = FALSE
  /\ lockedSliderPosition = "null"
  /\ submits = 0
  /\ disturbances = 0
  /\ issuesFound = 0
  /\ responses = 0
  /\ sliderValue = 0
  /\ preview = Entry("ta", "s1", "undefined")
  /\ showPreview = TRUE
  /\ isCustomActive = FALSE
  /\ toneAdjusted = TRUE
  /\ toneLoading = FALSE
  /\ customs = [i \in CustomIds |-> NoCustom]
  /\ translateDraft = NoDraft
  /\ call = NoCall

\* the user releases the slider at a position
HandleSliderComplete(value) ==
  /\ showPreview /\ toneAdjusted /\ ~isCustomActive /\ ~toneLoading
  /\ ~EffectPending
  /\ LET bucket == getSliderBucket(value)
         tb == sliderToToneBucket(bucket)
         cacheKey == getCacheKey(tb.tone, tb.bucket, previewSourceText,
                                 Language(partner))
     IN /\ sliderValue' = bucket
        /\ preview' = IF previewSourceText # "" /\ cacheKey \in DOMAIN cache
                      THEN showCached(cache[cacheKey]) ELSE preview
  /\ UNCHANGED <<cache, runs, tasks, verificationStatus, previewSourceText,
                 partner, isTranslating, translationError,
                 lockedSliderPosition, submits, disturbances, issuesFound,
                 responses, showPreview, isCustomActive, toneAdjusted>>
  /\ UNCHANGED <<toneLoading, customs, translateDraft, call>>

\* the user switches the custom tone panel on or off
HandleCustomToggle ==
  /\ showPreview /\ preview.translation # "" /\ ~isTranslating
  /\ ~EffectPending
  /\ isCustomActive' = ~isCustomActive
  /\ UNCHANGED <<cache, runs, tasks, verificationStatus, previewSourceText,
                 partner, isTranslating, translationError,
                 lockedSliderPosition, submits, disturbances, issuesFound,
                 responses, sliderValue, preview, showPreview, toneAdjusted>>
  /\ UNCHANGED <<toneLoading, customs, translateDraft, call>>

NextSession ==
  \/ Next
  \/ \E value \in SliderPositions : HandleSliderComplete(value)
  \/ HandleCustomToggle

SpecSession == InitSession /\ [][NextSession]_vars

(***************************************************************************)
(* The custom tone.  In the session above the user opens the custom panel  *)
(* and asks for free-text styles: a preset button calls                    *)
(* handleCustomTranslate whatever toneLoading is, so two requests can be   *)
(* in flight together.                                                     *)
(***************************************************************************)
UI_TONE_LEVELS == {0, 50, 100}

\* the free-text styles asked for
CustomTones == {"x", "y"}

\* getCacheKey('custom', toneBucket, sourceText, customToneText, ...): the
\* key string ends with custom_toneBucket_customToneText
getCacheKeyCustom(toneBucket, sourceText, customToneText, targetLang) ==
  <<sourceText, targetLang, "custom", toneBucket, customToneText>>

\* translateFull for a completion outcome: it has no catch
translateFull(o) ==
  IF o \in Trans
  THEN [threw |-> FALSE, err |-> "none", result |-> Res(o, "rev_custom", "low")]
  ELSE [threw |-> TRUE, err |-> o, result |-> NoRes]

\* generateAndCacheUiBuckets, its allCached test for a custom tone
customAllCached(c, src, lang, toneText) ==
  \A bucket \in UI_TONE_LEVELS :
    getCacheKeyCustom(bucket, src, toneText, lang) \in DOMAIN c

\* cacheBucket called for level 0 only
customUpdates_OnlyLevel0(req, result) ==
  getCacheKeyCustom(0, req.src, req.toneText, req.lang)
    :> Entry(result.translation, result.reverse_translation, "undefined")

\* UI_TONE_LEVELS.forEach((b) => cacheBucket(b, result))
customUpdates(req, result) ==
  [k \in {getCacheKeyCustom(b, req.src, req.toneText, req.lang) :
            b \in UI_TONE_LEVELS} |->
     Entry(result.translation, result.reverse_translation, "undefined")]

\* handleCustomTranslate after its await: the preview shows the level-0
\* entry of the custom band, if it is cached
afterCustomGenerate(p, c, req) ==
  LET cacheKey == getCacheKeyCustom(0, req.src, req.toneText, req.lang)
  IN IF cacheKey \in DOMAIN c
     THEN [p EXCEPT !.translation = c[cacheKey].translation,
                    !.reverseTranslation = c[cacheKey].reverseTranslation]
     ELSE p

\* the custom-tone requests made so far
CustomCount == Cardinality({i \in CustomIds : customs[i].pc # "unused"})

\* handleCustomTranslate(toneText), up to the await of translateFull; with
\* the three levels cached generateAndCacheUiBuckets returns at once and the
\* handler runs to its end
HandleCustomTranslate(toneText) ==
  /\ showPreview /\ isCustomActive
  /\ previewSourceText # ""
  /\ CustomCount < MaxCustomRequests
  /\ ~EffectPending
  /\ LET i == CustomCount + 1
         req == [NoCustom EXCEPT !.src = previewSourceText,
                                 !.lang = Language(partner),
                                 !.toneText = toneText]
     IN IF customAllCached(cache, req.src, req.lang, toneText)
        THEN /\ customs' = [customs EXCEPT ![i] = [req EXCEPT !.pc = "hit"]]
             /\ preview' = afterCustomGenerate(preview, cache, req)
             /\ toneLoading' = FALSE
        ELSE /\ customs' = [customs EXCEPT ![i] = [req EXCEPT !.pc = "call",
                                                              !.calls = 1]]
             /\ preview' = preview
             /\ toneLoading' = TRUE
  /\ UNCHANGED <<cache, runs, tasks, verificationStatus, previewSourceText,
                 partner, isTranslating, translationError,
                 lockedSliderPosition, submits, disturbances, issuesFound,
                 responses, sliderValue, showPreview, isCustomActive,
                 toneAdjusted, translateDraft, call>>

\* translateFull of a custom-tone request resolves or rejects
CustomResolve(i, o) ==
  /\ responses < MaxResponses
  /\ responses' = responses + 1
  /\ customs[i].pc = "call"
  /\ ~EffectPending
  /\ o \in CompletionOutcomes
  /\ CountFailure(o)
  /\ toneLoading' = FALSE
  /\ LET req == customs[i]
         result == translateFull(o)
     IN IF result.threw
        THEN /\ customs' = [customs EXCEPT ![i].pc = "rejected"]
             /\ translationError' = TRUE
             /\ UNCHANGED <<cache, preview>>
        ELSE /\ customs' = [customs EXCEPT ![i].pc = "done",
                                           ![i].result = result.result]
             /\ cache' = updateTranslationCache(cache,
                           customUpdates(req, result.result))
             /\ preview' = afterCustomGenerate(preview, cache', req)
             /\ UNCHANGED translationError
  /\ UNCHANGED <<runs, tasks, verificationStatus, previewSourceText, partner,
                 isTranslating, lockedSliderPosition, submits, issuesFound,
                 sliderValue, showPreview, isCustomActive, toneAdjusted,
                 translateDraft, call>>

NextCustom ==
  \/ HandleCustomToggle
  \/ \E toneText \in CustomTones : HandleCustomTranslate(toneText)
  \/ \E i \in CustomIds :
       \E o \in Answers(customs[i].pc, "call", Trans \cup {"fail", "abort"}) :
         CustomResolve(i, o)
  \/ \E value \in SliderPositions : HandleSliderComplete(value)
  \/ \E p \in Partners : ChangePartner(p)
  \/ AutoPreviewEffect

SpecCustom == InitSession /\ [][NextCustom]_vars

(***************************************************************************)
(* The translate screen keeps its cache in the app context.  The variable  *)
(* cache is translationCacheRef.current there too, but the screen assigns  *)
(* it from translateDraft.translationCache in its render body, and         *)
(* updateTranslationCache only queues a functional state update.  Inside   *)
(* an event handler React batches the updates and renders after the        *)
(* handler.  In the continuation of an await it renders inside every       *)
(* setter under a legacy root (translateDraft.sync) and after the          *)
(* continuation under a concurrent root: the sources do not tell which     *)
(* root the build creates, so both are explored.                           *)
(***************************************************************************)
\* updateTranslationCache of the translate screen:
\* setTranslateDraft(prev => ({translationCache: {...prev.translationCache,
\* ...updates}})); setTranslationCacheVersion(v => v + 1)
updateTranslationCacheDraft(draft, updates) ==
  [draft EXCEPT !.queued = updates @@ @, !.pending = TRUE]

\* React applies the queued updates to the state of the context
renderDraft(draft) ==
  [draft EXCEPT !.translationCache = draft.queued @@ @,
                !.queued = EmptyCache, !.pending = FALSE]

\* updateTranslationCache called in the continuation of an await: the
\* context and the reference after the call
writeDraft(draft, ref, updates) ==
  IF draft.sync
  THEN LET d == renderDraft(updateTranslationCacheDraft(draft, updates))
       IN [draft |-> d, ref |-> d.translationCache]
  ELSE [draft |-> updateTranslationCacheDraft(draft, updates), ref |-> ref]

\* no render of the screen is due
DraftIdle == ~translateDraft.pending

\* the preview effect of the translate screen, run after a render in which
\* sliderBucket, isCustomActive, previewSourceText or
\* translationCacheVersion changed
previewEffectDraft(ref, p, position, src, custom) ==
  LET tb == sliderToToneBucket(position)
      key == getCacheKey(tb.tone, tb.bucket, src, Language(partner))
  IN IF src # "" /\ ~custom /\ key \in DOMAIN ref
     THEN showCached(ref[key]) ELSE p

\* handleSelfTranslate with no locked position, up to its await: a cached
\* base is shown at once and the tone bands are generated in the background,
\* otherwise the base is requested (extractStructureSpacy, which never
\* rejects, and translateFullSimple are taken as one call)
HandleSelfTranslate(text) ==
  /\ ~isTranslating
  /\ DraftIdle
  /\ submits < MaxSelfRequests
  /\ submits' = submits + 1
  /\ UNCHANGED disturbances
  /\ previewSourceText' = text
  /\ LET r == submits + 1
         lang == Language(partner)
         baseCacheKey == BaseKey(text, lang)
         run0 == [IdleRun EXCEPT !.src = text, !.lang = lang,
                                 !.slider = sliderValue]
     IN IF baseCacheKey \in DOMAIN cache
        THEN LET st == startGenerateAll(cache, run0)
             IN /\ preview' = showCached(cache[baseCacheKey])
                /\ showPreview' = TRUE
                /\ runs' = [runs EXCEPT ![r] = st.run]
                /\ translateDraft' =
                     IF st.run.pc = "hit" THEN translateDraft
                     ELSE updateTranslationCacheDraft(translateDraft,
                            Level0Updates(text, lang, st.run.full))
                /\ UNCHANGED <<isTranslating, translationError,
                               isCustomActive>>
        ELSE /\ isTranslating' = TRUE
             /\ translationError' = FALSE
             /\ showPreview' = FALSE
             /\ isCustomActive' = FALSE
             /\ runs' = [runs EXCEPT ![r] = [run0 EXCEPT !.kind = "base",
                                                         !.awaited = TRUE,
                                                         !.pc = "baseCall"]]
             /\ UNCHANGED <<preview, translateDraft>>
  /\ toneAdjusted' = FALSE
  /\ sliderValue' = 0
  /\ call' = NoCall
  /\ UNCHANGED <<cache, tasks, verificationStatus, partner,
                 lockedSliderPosition, issuesFound, responses, toneLoading,
                 customs>>

\* translateFullSimple for the base resolves: generateAndCacheUiBuckets
\* writes the base entry and returns, handleSelfTranslate looks the entry up
\* through translationCacheRef.current in the same task, shows the preview
\* and starts preGenerateToneAdjustments, whose generateAllToneAdjustments
\* runs up to its first await
SelfBaseResolve(r, o) ==
  /\ responses < MaxResponses
  /\ responses' = responses + 1
  /\ isTranslating
  /\ DraftIdle
  /\ runs[r].pc = "baseCall"
  /\ o \in CompletionOutcomes
  /\ CountFailure(o)
  /\ isTranslating' = FALSE
  /\ LET run == runs[r]
         fullResult == translateFullSimple(o, "rev_base")
         baseCacheKey == BaseKey(run.src, run.lang)
         written == Entry(fullResult.result.translation, run.src, "undefined")
         w1 == writeDraft(translateDraft, cache, baseCacheKey :> written)
         st == startGenerateAll(w1.ref, [run EXCEPT !.kind = "all",
                                                    !.awaited = FALSE])
         w2 == IF st.run.pc = "tgtStruct"
               THEN writeDraft(w1.draft, w1.ref,
                               Level0Updates(run.src, run.lang, st.run.full))
               ELSE w1
     IN IF fullResult.threw
        THEN /\ translationError' = TRUE
             /\ call' = NoCall
             /\ runs' = [runs EXCEPT ![r] = rejected(run, o)]
             /\ UNCHANGED <<cache, translateDraft, preview, showPreview>>
        ELSE /\ translateDraft' = w2.draft
             /\ cache' = w2.ref
             /\ runs' = [runs EXCEPT ![r] = st.run]
             /\ call' = [fn |-> "lookup", key |-> baseCacheKey,
                         written |-> written,
                         found |-> baseCacheKey \in DOMAIN w1.ref,
                         observed |-> IF baseCacheKey \in DOMAIN w1.ref
                                      THEN w1.ref[baseCacheKey] ELSE NoPreview]
             /\ preview' = IF baseCacheKey \in DOMAIN w1.ref
                           THEN showCached(w1.ref[baseCacheKey]) ELSE preview
             /\ showPreview' = TRUE
             /\ UNCHANGED translationError
  /\ UNCHANGED <<previewSourceText, tasks, verificationStatus, partner,
                 lockedSliderPosition, submits, issuesFound, sliderValue,
                 isCustomActive, toneAdjusted, toneLoading, customs>>

\* the answers of the calls of one background generation: the translation
\* of each band, and of the base if it has to be requested again
GenerationAnswers ==
  [full : Trans,
   band : {[b \in BandKeys |-> "ta"], [b \in BandKeys |-> "tb"],
           [b \in BandKeys |-> IF b[2] = 50 THEN "ta" ELSE "tb"]}]

\* the calls that generateAllToneAdjustments of the translate screen awaits
\* after its head are answered, here one after the other with no event in
\* between: the final writes and the start of the verification tasks, or
\* the catch of preGenerateToneAdjustments when the first call fails
PreGenerateResolve(r, o, a) ==
  /\ responses < MaxResponses
  /\ responses' = responses + 1
  /\ DraftIdle
  /\ runs[r].pc \in {"srcStruct", "tgtStruct"}
  /\ o \in {"ok"} \cup (IF disturbances < MaxDisturbances
                         THEN {"fail", "abort"} ELSE {})
  /\ CountFailure(o)
  /\ LET run == runs[r]
         full == IF run.pc = "srcStruct" THEN a.full ELSE run.full
         run1 == [run EXCEPT
                    !.pc = "done", !.full = full,
                    !.r50 = [tone \in Tones |->
                               Res(a.band[<<tone, 50>>], RevOf(tone, 50), "low")],
                    !.r100 = [tone \in Tones |->
                                Res(a.band[<<tone, 100>>], RevOf(tone, 100), "low")]]
         head == IF run.pc = "srcStruct"
                 THEN Level0Updates(run.src, run.lang, full)
                      @@ (BaseKey(run.src, run.lang) :>
                            Entry(full, run.src, "undefined"))
                 ELSE EmptyCache
         w == writeDraft(translateDraft, cache, finalUpdates(run1) @@ head)
     IN IF o # "ok"
        THEN /\ runs' = [runs EXCEPT ![r] = rejected(run, o)]
             /\ UNCHANGED <<cache, translateDraft, tasks, verificationStatus,
                            preview>>
        ELSE /\ runs' = [runs EXCEPT ![r] = run1]
             /\ translateDraft' = w.draft
             /\ cache' = w.ref
             /\ tasks' = [tasks EXCEPT ![r] = spawnedTasks(run1)]
             /\ verificationStatus' =
                  [b \in BandKeys |->
                     IF needsVerification(run1, b[1], b[2]) THEN "verifying"
                     ELSE verificationStatus[b]]
             /\ preview' = IF translateDraft.sync
                           THEN previewEffectDraft(w.ref, preview, sliderValue,
                                  previewSourceText, isCustomActive)
                           ELSE preview
  /\ UNCHANGED <<previewSourceText, partner, isTranslating, translationError,
                 lockedSliderPosition, submits, issuesFound, sliderValue,
                 showPreview, isCustomActive, toneAdjusted, toneLoading,
                 customs, call>>

\* verifyTranslation of a task of the translate screen resolves or aborts
DraftVerifyResolve(r, b, o) ==
  /\ responses < MaxResponses
  /\ responses' = responses + 1
  /\ DraftIdle
  /\ tasks[r][b].pc = "verifying"
  /\ o \in VerifyOutcomes
  /\ CountFailure(o)
  /\ issuesFound' = IF o \in {"M", "N", "MN"} THEN issuesFound + 1 ELSE issuesFound
  /\ LET task == tasks[r][b]
     IN /\ tasks' = [tasks EXCEPT ![r][b] =
             IF statusAfterVerify(o) # "fixing" THEN ended(task, o)
             ELSE [task EXCEPT !.pc = IF o = "N" THEN "fixN" ELSE "fixM",
                               !.cur = task.translation,
                               !.mean = (o \in {"M", "MN"}),
                               !.nat = (o \in {"N", "MN"})]]
        /\ verificationStatus' =
             [verificationStatus EXCEPT ![b] = statusAfterVerify(o)]
  /\ UNCHANGED <<cache, translateDraft, runs, previewSourceText, partner,
                 isTranslating, translationError, lockedSliderPosition,
                 submits, sliderValue, preview, showPreview, isCustomActive,
                 toneAdjusted, toneLoading, customs, call>>

\* fixMeaningIssues or fixNaturalness of a task of the translate screen
\* resolves or aborts, and applyFix runs in the continuation: the write of
\* the fixed band, setPreview when the slider the task saw at the press
\* selects that band, and the second write that keeps noChange consistent.
\* Under a legacy root the effect of the render of the first write runs
\* before setPreview is applied, and runs again only after a second write.
DraftFixResolve(r, b, o) ==
  /\ responses < MaxResponses
  /\ responses' = responses + 1
  /\ DraftIdle
  /\ tasks[r][b].pc \in {"fixM", "fixN"}
  /\ o \in CompletionOutcomes
  /\ CountFailure(o)
  /\ LET task == tasks[r][b]
         meaning == task.pc = "fixM"
         fixed == fixResult(o, task.cur,
                            IF meaning THEN "rev_fixM" ELSE "rev_fixN")
         cacheKey == getCacheKey(b[1], b[2], task.src, task.lang)
         first == cacheKey :> Entry(fixed.translation,
                                    fixed.reverse_translation, "undefined")
         c2 == applyFix(cache, b[1], b[2], task.src, task.lang,
                        fixed.translation, fixed.reverse_translation)
         second == [k \in {x \in DOMAIN c2 :
                             (first @@ cache)[x] # c2[x]} |-> c2[k]]
         w1 == writeDraft(translateDraft, cache, first)
         w2 == IF second # EmptyCache THEN writeDraft(w1.draft, w1.ref, second)
               ELSE w1
         p0 == IF translateDraft.sync
               THEN previewEffectDraft(w1.ref, preview, sliderValue,
                                       previewSourceText, isCustomActive)
               ELSE preview
         p1 == applyFixPreview(p0, task.slider, b[1], b[2],
                               fixed.translation, fixed.reverse_translation)
         p2 == IF translateDraft.sync /\ second # EmptyCache
               THEN previewEffectDraft(w2.ref, p1, sliderValue,
                                       previewSourceText, isCustomActive)
               ELSE p1
         goesOn == meaning /\ task.nat
     IN IF o = "abort"
        THEN /\ tasks' = [tasks EXCEPT ![r][b] = ended(task, o)]
             /\ verificationStatus' = [verificationStatus EXCEPT ![b] = "null"]
             /\ UNCHANGED <<cache, translateDraft, preview>>
        ELSE /\ translateDraft' = w2.draft
             /\ cache' = w2.ref
             /\ preview' = p2
             /\ tasks' = [tasks EXCEPT ![r][b] =
                  LET t1 == [task EXCEPT
                               !.merged = @ \/ fixEqualsSibling(cache, b[1], b[2],
                                           task.src, task.lang, fixed.translation),
                               !.failed = @ \/ o = "fail"]
                  IN IF meaning THEN afterMeaningFix(t1, fixed)
                     ELSE ended(t1, "done")]
             /\ verificationStatus' =
                  IF goesOn THEN verificationStatus
                  ELSE [verificationStatus EXCEPT ![b] = "passed"]
  /\ UNCHANGED <<runs, previewSourceText, partner, isTranslating,
                 translationError, lockedSliderPosition, submits, issuesFound,
                 sliderValue, showPreview, isCustomActive, toneAdjusted,
                 toneLoading, customs, call>>

\* the translate screen renders after a batch of updates: the queued updates
\* reach the context, the render body assigns translationCacheRef.current,
\* and the preview effect runs
RenderTranslateScreen ==
  /\ translateDraft.pending
  /\ translateDraft' = renderDraft(translateDraft)
  /\ cache' = translateDraft'.translationCache
  /\ preview' = previewEffectDraft(cache', preview, sliderValue,
                                   previewSourceText, isCustomActive)
  /\ UNCHANGED <<runs, tasks, verificationStatus, previewSourceText, partner,
                 isTranslating, translationError, lockedSliderPosition,
                 submits, disturbances, issuesFound, responses, sliderValue,
                 showPreview, isCustomActive, toneAdjusted, toneLoading,
                 customs, call>>

\* the cache after an earlier request for "s1" whose bands all came back as
\* the base translation
EarlierCache ==
  updateTranslationCache(
    updateTranslationCache(
      BaseKey("s1", Language("p1")) :> Entry("ta", "s1", "undefined"),
      Level0Updates("s1", Language("p1"), "ta")),
    finalUpdates(EarlierRun))

\* the translate screen when it is opened, or after an earlier request with
\* the tone slider opened and left at one of its positions; the root of the
\* build is legacy (sync) or concurrent
InitDraft ==
  /\ translateDraft \in
       {[NoDraft EXCEPT !.sync = s, !.translationCache = c] :
          s \in BOOLEAN, c \in {EmptyCache, EarlierCache}}
  /\ cache = translateDraft.translationCache
  /\ runs = [r \in RunIds |-> IdleRun]
  /\ tasks = [r \in RunIds |-> [b \in BandKeys |-> NoTask]]
  /\ verificationStatus = [b \in BandKeys |-> "null"]
  /\ partner = "p1"
  /\ isTranslating = FALSE
  /\ translationError = FALSE
  /\ lockedSliderPosition = "null"
  /\ submits = 0
  /\ disturbances = 0
  /\ issuesFound = 0
  /\ responses = 0
  /\ isCustomActive = FALSE
  /\ toneLoading = FALSE
  /\ customs = [i \in CustomIds |-> NoCustom]
  /\ call = NoCall
  /\ IF cache = EmptyCache
     THEN /\ previewSourceText = ""
          /\ sliderValue = 0
          /\ preview = NoPreview
          /\ showPreview = FALSE
          /\ toneAdjusted = FALSE
     ELSE /\ previewSourceText = "s1"
          /\ sliderValue \in {getSliderBucket(v) : v \in SliderPositions}
          /\ preview = previewEffectDraft(cache, NoPreview, sliderValue, "s1",
                                          FALSE)
          /\ showPreview = TRUE
          /\ toneAdjusted = TRUE

NextDraft ==
  \/ \E text \in Sources : HandleSelfTranslate(text)
  \/ \E r \in RunIds :
       \E o \in Answers(runs[r].pc, "baseCall", Trans \cup {"fail", "abort"}) :
         SelfBaseResolve(r, o)
  \/ \E r \in RunIds :
       \E o \in {"ok", "fail", "abort"}, a \in GenerationAnswers :
         PreGenerateResolve(r, o, a)
  \/ \E r \in RunIds, b \in BandKeys :
       \E o \in Answers(tasks[r][b].pc, "verifying",
                        {"pass", "low", "M", "N", "MN", "fail", "abort"}) :
         DraftVerifyResolve(r, b, o)
  \/ \E r \in RunIds, b \in BandKeys :
       \E o \in Trans \cup {"fail", "abort"} : DraftFixResolve(r, b, o)
  \/ RenderTranslateScreen

SpecDraft == InitDraft /\ [][NextDraft]_vars

(***************************************************************************)
(* The guards of guards.ts, called on their own.  A text is a sequence of  *)
(* UTF-16 code units: 32 is a space, 97 is "a", 12391 and 12377 are the    *)
(* hiragana "de" and "su", 12290 is the ideographic full stop, 12450 is    *)
(* the katakana "a" and 19968 is the kanji "one".                          *)
(***************************************************************************)
Chars == {32, 97, 12391, 12377, 12450, 19968}

RECURSIVE TextsOfLen(_)
TextsOfLen(n) ==
  IF n = 0 THEN {<<>>}
  ELSE {Append(t, c) : t \in TextsOfLen(n - 1), c \in Chars}

Texts == UNION {TextsOfLen(n) : n \in 0..MaxTextLen}

\* /[\u3041-\u3093\u30A1-\u30F3]/.test(c): hiragana "a" to "n", katakana "a" to "n"
KanaRange(c) == (c >= 12353 /\ c <= 12435) \/ (c >= 12449 /\ c <= 12531)

\* the character class of hasJapaneseCharacters: the kana ranges and the
\* kanji from U+4E00 to U+9FAF
JapaneseRange(c) == KanaRange(c) \/ (c >= 19968 /\ c <= 40879)

hasKana(text) == \E i \in 1..Len(text) : KanaRange(text[i])

hasJapaneseCharacters(text) == \E i \in 1..Len(text) : JapaneseRange(text[i])

\* String.prototype.trim
RECURSIVE trim(_)
trim(text) ==
  IF text = <<>> THEN text
  ELSE IF Head(text) = 32 THEN trim(Tail(text))
  ELSE IF text[Len(text)] = 32 THEN trim(SubSeq(text, 1, Len(text) - 1))
  ELSE text

\* text.replace(/[kana]+/g, '')
removeKana(text) == SelectSeq(text, LAMBDA c : ~KanaRange(c))

\* text.replace(/[japanese and japanese punctuation]+/g, '')
removeJapanese(text) ==
  SelectSeq(text, LAMBDA c : ~(JapaneseRange(c) \/ c = 12290))

\* text ends with suffix
endsWith(text, suffix) ==
  /\ Len(text) >= Len(suffix)
  /\ SubSeq(text, Len(text) - Len(suffix) + 1, Len(text)) = suffix

\* text.replace(/desu[.]?desu[.]?$/, 'desu.'), the first of the general
\* patterns of fixDoubleEnding; its other patterns have the same shape, a
\* doubled hiragana sentence ending replaced by a single hiragana ending
fixDoubleEnding(text) ==
  LET desu == <<12391, 12377>>
      stop == <<12290>>
      endings == {desu \o desu, desu \o stop \o desu, desu \o desu \o stop,
                  desu \o stop \o desu \o stop}
      found == {e \in endings : endsWith(text, e)}
  IN IF found = {} THEN text
     ELSE LET e == CHOOSE x \in found : \A y \in found : Len(y) <= Len(x)
          IN SubSeq(text, 1, Len(text) - Len(e)) \o desu \o stop

\* applyReverseTranslationGuard returning its argument as it is
applyReverseTranslationGuard_Accept(sourceLang, result) == result

\* applyReverseTranslationGuard ("ja", "zh", "ko", "en" stand for the
\* language names Japanese, Chinese, Korean, English of the source)
applyReverseTranslationGuard(sourceLang, result) ==
  LET reverseText == trim(result.reverse_translation)
  IN IF sourceLang # "ja"
     THEN IF sourceLang \in {"zh", "ko"}
          THEN IF hasKana(reverseText)
               THEN [result EXCEPT
                       !.reverse_translation = trim(removeKana(reverseText)),
                       !.risk = "high"]
               ELSE result
          ELSE IF hasJapaneseCharacters(reverseText)
               THEN [result EXCEPT
                       !.reverse_translation = trim(removeJapanese(reverseText)),
                       !.risk = "high"]
               ELSE result
     ELSE LET fixed == fixDoubleEnding(reverseText)
          IN IF fixed = <<>> \/ ~hasJapaneseCharacters(fixed)
             THEN [result EXCEPT !.reverse_translation = fixed, !.risk = "high"]
             ELSE [result EXCEPT !.reverse_translation = fixed]

\* applyTranslationLanguageGuard
applyTranslationLanguageGuard(targetLang, result) ==
  IF targetLang \in {"ja", "zh"} THEN result
  ELSE IF hasKana(result.translation)
  THEN LET cleanedTranslation == trim(removeKana(result.translation))
       IN [result EXCEPT
             !.translation = IF cleanedTranslation # <<>> THEN cleanedTranslation
                             ELSE result.translation,
             !.risk = "high"]
  ELSE result

\* every variable but call
session == <<cache, runs, tasks, verificationStatus, previewSourceText,
             partner, isTranslating, translationError, lockedSliderPosition,
             submits, disturbances, issuesFound, responses, sliderValue,
             preview, showPreview, isCustomActive, toneAdjusted, toneLoading,
             customs, translateDraft>>

GuardLangs == {"ja", "zh", "ko", "en"}

\* applyTranslationLanguageGuard is applied to a parsed completion
CallTranslationLanguageGuard(targetLang, translation) ==
  /\ call = NoCall
  /\ LET parsed == Res(translation, <<>>, "low")
     IN call' = [fn |-> "applyTranslationLanguageGuard", lang |-> targetLang,
                 arg |-> parsed,
                 result |-> applyTranslationLanguageGuard(targetLang, parsed)]
  /\ UNCHANGED session

\* applyReverseTranslationGuard is applied to a parsed completion
CallReverseTranslationGuard(sourceLang, reverse) ==
  /\ call = NoCall
  /\ LET parsed == Res(<<97>>, reverse, "low")
     IN call' = [fn |-> "applyReverseTranslationGuard", lang |-> sourceLang,
                 arg |-> parsed,
                 result |-> applyReverseTranslationGuard(sourceLang, parsed)]
  /\ UNCHANGED session

\* what fixMeaningIssues and fixNaturalness return for a parsed completion:
\* parsed.translation || translation, with no guard applied
fixedTranslation(parsedTranslation, translation) ==
  [translation |-> IF parsedTranslation # <<>> THEN parsedTranslation
                   ELSE translation,
   reverse_translation |-> <<>>]

FixFunctions == {"fixMeaningIssues", "fixNaturalness"}

\* a fix function is called for the translation "a" and its completion is
\* parsed; applyFix caches the translation of the result
CallFix(fn, targetLang, parsedTranslation) ==
  /\ call = NoCall
  /\ call' = [fn |-> fn, lang |-> targetLang,
              arg |-> Res(parsedTranslation, <<>>, "low"),
              result |-> fixedTranslation(parsedTranslation, <<97>>)]
  /\ UNCHANGED session

NextGuards ==
  \/ /\ call = NoCall
     /\ \E targetLang \in GuardLangs, translation \in Texts :
          CallTranslationLanguageGuard(targetLang, translation)
  \/ /\ call = NoCall
     /\ \E sourceLang \in GuardLangs, reverse \in Texts :
          CallReverseTranslationGuard(sourceLang, reverse)
  \/ /\ call = NoCall
     /\ \E fn \in FixFunctions, targetLang \in GuardLangs,
           parsedTranslation \in Texts :
          CallFix(fn, targetLang, parsedTranslation)

SpecGuards == Init /\ [][NextGuards]_vars

(***************************************************************************)
(* getCacheKey as the string it builds, called for two requests.           *)
(***************************************************************************)
PROMPT_VERSION == "2026-02-11-phase2d-fix3"

\* "" stands for a null tone and for an absent customToneText or language
getCacheKeyString(tone, toneBucket, sourceText, customToneText, sourceLang, targetLang, isNative) ==
  LET normalizedTone == IF tone # "" THEN tone ELSE "none"
      customPart == IF tone = "custom" /\ customToneText # ""
                    THEN "_" \o customToneText ELSE ""
      langPart == (IF sourceLang # "" THEN sourceLang ELSE "auto") \o "->"
                  \o (IF targetLang # "" THEN targetLang ELSE "unknown")
      nativePart == IF isNative THEN "_native" ELSE ""
  IN PROMPT_VERSION \o "|" \o langPart \o "|" \o sourceText \o "|"
     \o normalizedTone \o "_" \o ToString(toneBucket) \o customPart
     \o nativePart

\* the texts a user types as source text and as custom tone
KeySources == {"s", "s|custom_0_x"}
KeyCustomTones == {"x", "y", "x_native", "x|custom_0_y"}

\* the requests of the chat screen: a custom tone text goes with the tone
\* "custom" only, and with bucket 0
Requests ==
  [tone : {"casual", "business"}, toneBucket : {0, 50, 100},
   sourceText : KeySources, customToneText : {""}, sourceLang : {"ja"},
   targetLang : Langs, isNative : BOOLEAN]
  \cup
  [tone : {"custom"}, toneBucket : {0}, sourceText : KeySources,
   customToneText : KeyCustomTones, sourceLang : {"ja"}, targetLang : Langs,
   isNative : BOOLEAN]

keyOf(q) ==
  getCacheKeyString(q.tone, q.toneBucket, q.sourceText, q.customToneText,
                    q.sourceLang, q.targetLang, q.isNative)

\* getCacheKey is called for two requests
CallGetCacheKey(a, b) ==
  /\ call = NoCall
  /\ call' = [fn |-> "getCacheKey", a |-> a, b |-> b, keyA |-> keyOf(a),
              keyB |-> keyOf(b)]
  /\ UNCHANGED session

NextKeys ==
  /\ call = NoCall
  /\ \E a \in Requests, b \in Requests : CallGetCacheKey(a, b)

SpecKeys == Init /\ [][NextKeys]_vars

(***************************************************************************)
(* Properties.                                                             *)
(***************************************************************************)
\* a generation that still has a backend call outstanding
InFlight(run) ==
  run.pc \in {"srcStruct", "baseCall", "tgtStruct", "defs", "p50", "retry50",
              "l100", "retryB100"}

\* the press of the translate button that starts generation number r
Pressed(r) == submits = r - 1 /\ submits' = r

\* an AbortError reached .catch(() => {}) of preGenerateToneAdjustments
PreGenerateAbortDiscarded ==
  \E r \in RunIds :
    runs[r].pc = "rejected" /\ runs[r].err = "abort" /\ ~runs[r].awaited

\* an AbortError reached the catch {} of verifyAndFixOneBand
TaskAbortDiscarded ==
  \E r \in RunIds, b \in BandKeys : tasks[r][b].aborted

\* a backend call of the verification task of band b of generation r comes
\* back in this step
TaskStep(r, b) ==
  tasks[r][b].pc \in {"verifying", "fixM", "fixN"} /\ tasks'[r][b] # tasks[r][b]

\* C1 (as stated): a press of the translate button for a source request
\* whose base band is already in the cache is served from the cache and
\* starts no backend call.
C1_SecondRequestNoCall ==
  [][\A r \in RunIds :
       (Pressed(r)
        /\ BaseKey(previewSourceText', Language(partner)) \in DOMAIN cache)
       => ~InFlight(runs'[r])]_vars

\* C1 (amended): a press of the translate button for a source request whose
\* base band and four casual/business 50/100 bands are all in the cache
\* starts no backend call and leaves the cache and the verification tasks
\* as they are.
C1_CompleteCacheHit ==
  [][\A r \in RunIds :
       (Pressed(r)
        /\ BaseKey(previewSourceText', Language(partner)) \in DOMAIN cache
        /\ RequiredKeys(previewSourceText', Language(partner))
             \subseteq DOMAIN cache)
       => /\ runs'[r].pc = "hit"
          /\ cache' = cache
          /\ tasks' = tasks
          /\ isTranslating' = FALSE]_vars

\* a second press for a fully cached request returned without a call
C1_Witness ==
  /\ submits = 2
  /\ runs[1].pc = "done"
  /\ runs[2].pc = "hit"
  /\ runs[2].src = runs[1].src
  /\ RequiredKeys(runs[2].src, runs[2].lang) \subseteq DOMAIN cache

\* C2: when a generation writes its four bands, a level-50 band whose text
\* equals the base translation the generation worked from is cached with
\* noChange = true and the reverse translation of the base entry, and a
\* level-100 band whose text equals the final level-50 text of its tone is
\* cached with noChange = true and the reverse translation cached for that
\* level-50 band.
C2_NoChangeOnIdenticalText ==
  [][\A r \in RunIds, tone \in Tones :
       (runs[r].pc # "done" /\ runs'[r].pc = "done")
       => LET run == runs'[r]
              k0 == BaseKey(run.src, run.lang)
              k50 == getCacheKey(tone, 50, run.src, run.lang)
              k100 == getCacheKey(tone, 100, run.src, run.lang)
          IN /\ {k50, k100} \subseteq DOMAIN cache'
             /\ cache'[k50].translation = run.full
                  => /\ cache'[k50].noChange = "true"
                     /\ cache'[k50].reverseTranslation = run.src
                     /\ k0 \in DOMAIN cache'
                          => cache'[k50].reverseTranslation =
                               cache'[k0].reverseTranslation
             /\ cache'[k100].translation = cache'[k50].translation
                  => /\ cache'[k100].noChange = "true"
                     /\ cache'[k100].reverseTranslation =
                          cache'[k50].reverseTranslation]_vars

\* a generation cached a level-100 band identical to a changed level-50 band,
\* with the reverse translation of that level-50 band
C2_Witness ==
  \E r \in RunIds, tone \in Tones :
    LET k50 == getCacheKey(tone, 50, runs[r].src, runs[r].lang)
        k100 == getCacheKey(tone, 100, runs[r].src, runs[r].lang)
    IN /\ runs[r].pc = "done"
       /\ {k50, k100} \subseteq DOMAIN cache
       /\ cache[k50].noChange = "false"
       /\ cache[k100].translation = cache[k50].translation
       /\ cache[k100].noChange = "true"
       /\ cache[k100].reverseTranslation = RevOf(tone, 50)

C4_AbortedBaseWritesNothing ==
  \A r \in RunIds :
    runs[r].baseOutcome = "abort"
    => /\ ~runs[r].wroteBase
       /\ runs[r].pc = "rejected"
       /\ runs[r].full = ""

\* the base-band call of a first request was aborted and the base key is absent
C4_Witness ==
  \E r \in RunIds :
    /\ runs[r].baseOutcome = "abort"
    /\ runs[r].pc = "rejected"
    /\ submits = 1
    /\ BaseKey(runs[r].src, runs[r].lang) \notin DOMAIN cache

\* C5: no casual or business band at level 50 or 100 is cached with a
\* translation whose modality class differs from that of a source whose
\* class is request, confirmation, suggestion or obligation.
C5_ModalityPreserved ==
  \A k \in DOMAIN cache :
    (k[3] \in Tones /\ k[4] \in Levels
     /\ extractModalityClass(k[1]) # "statement")
    => extractModalityClass(cache[k].translation) = extractModalityClass(k[1])

\* C6: a completion failure that is not a cancellation, at level 50 or 100,
\* never makes the generation reject: it degrades and the bands are cached.
C6_FailureDegrades ==
  \A r \in RunIds :
    (runs[r].pc = "rejected" /\ runs[r].err = "fail")
    => runs[r].errAt \notin {"p50", "retry50", "l100", "retryB100"}

\* C7: no AbortError raised by a completion call is dropped on its way to
\* the caller that started the operation.
C7_AbortAlwaysPropagated ==
  ~PreGenerateAbortDiscarded /\ ~TaskAbortDiscarded

\* C8: every generation with a call in flight belongs to the request on
\* screen: a press for another text and a change of partner cancel the
\* calls of the previous request.
C8_StaleCallsCancelled ==
  \A r \in RunIds :
    InFlight(runs[r])
    => runs[r].src = previewSourceText /\ runs[r].lang = Language(partner)

\* C9: the step in which the verification call or a fix call of a band comes
\* back failed leaves the cache entry of that band as it was.
C9_FailureLeavesEntry ==
  [][\A r \in RunIds, b \in BandKeys :
       LET k == getCacheKey(b[1], b[2], tasks[r][b].src, tasks[r][b].lang)
       IN (TaskStep(r, b) /\ ~tasks[r][b].failed /\ tasks'[r][b].failed
           /\ k \in DOMAIN cache)
          => k \in DOMAIN cache' /\ cache'[k] = cache[k]]_vars

\* C10: a verification task that ends after its verification call or one of
\* its fix calls failed (and none was aborted) ends with the status passed,
\* and the step raises no translation error.
C10_FailureEndsPassed ==
  [][\A r \in RunIds, b \in BandKeys :
       (TaskStep(r, b) /\ tasks'[r][b].pc = "ended"
        /\ tasks'[r][b].failed /\ ~tasks'[r][b].aborted)
       => /\ verificationStatus'[b] = "passed"
          /\ translationError' = translationError]_vars

\* a task ended on a failed call and its band shows passed
C10_Witness ==
  \E r \in RunIds, b \in BandKeys :
    /\ tasks[r][b].pc = "ended"
    /\ tasks[r][b].failed
    /\ ~tasks[r][b].aborted
    /\ verificationStatus[b] = "passed"

\* the statuses a band may pass through, as pairs (from, to)
StatusTransitions ==
  {<<"null", "verifying">>, <<"verifying", "fixing">>,
   <<"verifying", "passed">>, <<"fixing", "passed">>}

\* generation r performs its final cache writes in this step
Finishes(r) == runs[r].pc # "done" /\ runs'[r].pc = "done"

\* the verifyAndFixOneBand task of band b of generation r starts in this step
Starts(r, b) == tasks[r][b].pc = "none" /\ tasks'[r][b].pc = "verifying"

\* C11: the verification status of a band only ever changes from idle to
\* verifying, from verifying to fixing or passed, and from fixing to passed.
C11_StatusTransitions ==
  [][\A b \in BandKeys :
       verificationStatus'[b] # verificationStatus[b]
       => <<verificationStatus[b], verificationStatus'[b]>>
            \in StatusTransitions]_vars

\* C12: when a generation writes its four bands, a verification task (and
\* with it the verification call) starts for exactly the bands cached with
\* noChange = false; none starts for a band cached with noChange = true.
C12_VerifyOnlyChangedBands ==
  [][\A r \in RunIds, b \in BandKeys :
       LET k == getCacheKey(b[1], b[2], runs'[r].src, runs'[r].lang)
       IN /\ Finishes(r)
             => /\ k \in DOMAIN cache'
                /\ cache'[k].noChange \in {"true", "false"}
                /\ tasks'[r][b].pc = "verifying" <=> cache'[k].noChange = "false"
                /\ tasks'[r][b].pc = "none" <=> cache'[k].noChange = "true"
          /\ Starts(r, b) => Finishes(r)]_vars

\* a generation cached one band with noChange = true and started no task for
\* it, and cached another with noChange = false and started its task
C12_Witness ==
  \E r \in RunIds, b1 \in BandKeys, b2 \in BandKeys :
    LET k1 == getCacheKey(b1[1], b1[2], runs[r].src, runs[r].lang)
        k2 == getCacheKey(b2[1], b2[2], runs[r].src, runs[r].lang)
    IN /\ runs[r].pc = "done"
       /\ {k1, k2} \subseteq DOMAIN cache
       /\ cache[k1].noChange = "true" /\ tasks[r][b1].pc = "none"
       /\ cache[k2].noChange = "false" /\ tasks[r][b2].pc = "verifying"

\* C13: the step that starts the verification task of a band has the band in
\* the cache, with the text handed to the task, and ends the generation and
\* the handler that awaited it; every response to a verification or fix call
\* arrives after that.
C13_BandAvailableBeforeVerification ==
  [][\A r \in RunIds, b \in BandKeys :
       LET k == getCacheKey(b[1], b[2], tasks'[r][b].src, tasks'[r][b].lang)
       IN /\ Starts(r, b)
             => /\ k \in DOMAIN cache'
                /\ cache'[k].translation = tasks'[r][b].translation
                /\ runs'[r].pc = "done"
                /\ runs'[r].awaited => ~isTranslating'
          /\ TaskStep(r, b) => runs[r].pc = "done"]_vars

\* a generation that handleConvert awaited is over, the handler has returned,
\* and the verification of a cached band is still waiting for its response
C13_Witness ==
  \E r \in RunIds, b \in BandKeys :
    /\ runs[r].awaited
    /\ runs[r].pc = "done"
    /\ ~isTranslating
    /\ tasks[r][b].pc = "verifying"
    /\ getCacheKey(b[1], b[2], runs[r].src, runs[r].lang) \in DOMAIN cache

\* C14: a task that found issues of both classes issues the naturalness fix
\* only in the step in which the meaning fix comes back, and hands it the
\* translation the meaning fix returned, which that step wrote to the cache.
C14_MeaningFixFirst ==
  [][\A r \in RunIds, b \in BandKeys :
       LET k == getCacheKey(b[1], b[2], tasks[r][b].src, tasks[r][b].lang)
       IN (tasks[r][b].pc # "fixN" /\ tasks'[r][b].pc = "fixN"
           /\ tasks'[r][b].mean)
          => /\ tasks[r][b].pc = "fixM"
             /\ k \in DOMAIN cache'
             /\ tasks'[r][b].cur = cache'[k].translation]_vars

\* the naturalness fix of a band with issues of both classes is waiting for
\* its response, and was handed a text other than the one verified
C14_Witness ==
  \E r \in RunIds, b \in BandKeys :
    /\ tasks[r][b].pc = "fixN"
    /\ tasks[r][b].mean
    /\ tasks[r][b].nat
    /\ tasks[r][b].cur # tasks[r][b].translation

\* a fix call of the task of band b of generation r resolves in this step
\* and its result is applied
FixApplied(r, b) ==
  /\ TaskStep(r, b)
  /\ tasks[r][b].pc \in {"fixM", "fixN"}
  /\ ~tasks'[r][b].aborted

\* the reverse translations a fix call can hand to applyFix
FixReverses == {"rev_fixM", "rev_fixN", ""}

\* C15: a fix applied to the 100% band of a tone leaves the cache entry of
\* the 50% band of that tone as it was.
C15_HigherFixLeavesLowerBand ==
  [][\A r \in RunIds, tone \in Tones :
       LET b == <<tone, 100>>
           k50 == getCacheKey(tone, 50, tasks[r][b].src, tasks[r][b].lang)
       IN (FixApplied(r, b) /\ k50 \in DOMAIN cache)
          => k50 \in DOMAIN cache' /\ cache'[k50] = cache[k50]]_vars

C18_NoChangeMeansIdentical ==
  \A k \in DOMAIN cache :
    LET ref == IF k[4] = 50 THEN BaseKey(k[1], k[2])
               ELSE getCacheKey(k[3], 50, k[1], k[2])
    IN (k[3] \in Tones /\ k[4] \in Levels /\ cache[k].noChange = "true"
        /\ ref \in DOMAIN cache)
       => cache[k].translation = cache[ref].translation

\* C20 (as stated): a key that is in the cache stays in the cache.
C20_NeverEvicted ==
  [][\A k \in DOMAIN cache : k \in DOMAIN cache']_vars

\* C20 (amended): a key leaves the cache only when the conversation partner
\* changes, which empties the cache.
C20_EvictedOnlyOnPartnerChange ==
  [][(\E k \in DOMAIN cache : k \notin DOMAIN cache')
       => partner' # partner /\ cache' = EmptyCache]_vars

\* the partner changed after a base band had been cached, and the cache is
\* empty
C20_Witness ==
  /\ partner # "p1"
  /\ cache = EmptyCache
  /\ \E r \in RunIds : runs[r].wroteBase

\* C19: a fix that is applied after the user moved to another source text
\* changes no cache entry of another source text and leaves the displayed
\* translation as it is.
C19_LateFixHarmless ==
  [][\A r \in RunIds, b \in BandKeys :
       (FixApplied(r, b) /\ tasks[r][b].src # previewSourceText
        /\ previewSourceText # "")
       => /\ preview' = preview
          /\ \A k \in DOMAIN cache :
               k[1] # tasks[r][b].src
               => k \in DOMAIN cache' /\ cache'[k] = cache[k]]_vars

\* C19 (cache part): a fix that is applied after the user moved to another
\* source text is written under the key of its own source text and changes
\* no cache entry of another source text.
C19_LateFixWritesOwnKeys ==
  [][\A r \in RunIds, b \in BandKeys :
       (FixApplied(r, b) /\ tasks[r][b].src # previewSourceText)
       => /\ getCacheKey(b[1], b[2], tasks[r][b].src, tasks[r][b].lang)
               \in DOMAIN cache'
          /\ \A k \in DOMAIN cache :
               k[1] # tasks[r][b].src
               => k \in DOMAIN cache' /\ cache'[k] = cache[k]]_vars

\* the preview of the text now shown holds the fixed translation of a band
\* of another source text, and no refresh of the preview is due
C19_StalePreviewStays ==
  /\ showPreview /\ isCustomActive /\ previewSourceText # ""
  /\ \E r \in RunIds, b \in BandKeys :
       /\ tasks[r][b].pc = "ended"
       /\ tasks[r][b].src # previewSourceText
       /\ preview.reverseTranslation \in {"rev_fixM", "rev_fixN"}

\* C21: with English as target language, the language guard applied to a
\* translation that holds hiragana or katakana returns a translation that
\* holds none, with risk high.
C21_KanaStripped ==
  (call.fn = "applyTranslationLanguageGuard" /\ call.lang = "en"
   /\ hasKana(call.arg.translation))
  => ~hasKana(call.result.translation) /\ call.result.risk = "high"

C23_LowIssuesPass ==
  [][\A r \in RunIds, b \in BandKeys :
       (/\ TaskStep(r, b)
        /\ tasks[r][b].pc = "verifying"
        /\ issuesFound' = issuesFound
        /\ ~tasks'[r][b].aborted)
       => /\ verificationStatus'[b] = "passed"
          /\ tasks'[r][b].pc = "ended"
          /\ cache' = cache]_vars

\* the task of a band ended with the band passed, no response held an
\* actionable issue and the band is as generated
C23_Witness ==
  \E r \in RunIds, b \in BandKeys :
    LET k == getCacheKey(b[1], b[2], runs[r].src, runs[r].lang)
    IN /\ runs[r].pc = "done"
       /\ issuesFound = 0
       /\ tasks[r][b].pc = "ended"
       /\ ~tasks[r][b].aborted /\ ~tasks[r][b].failed
       /\ verificationStatus[b] = "passed"
       /\ k \in DOMAIN cache /\ cache[k] = finalEntry(runs[r], b[1], b[2])

\* C24: two requests get the same cache key if and only if all their
\* fields are identical.
C24_KeyInjective ==
  call.fn = "getCacheKey" => (call.keyA = call.keyB <=> call.a = call.b)

\* two requests of the chat screen (native mode off) that differ in source
\* text and custom tone text got the same key
C24_Collision ==
  /\ call.fn = "getCacheKey"
  /\ ~call.a.isNative /\ ~call.b.isNative
  /\ call.a.sourceText # call.b.sourceText
  /\ call.keyA = call.keyB

\* the cache keys of the casual and business bands at level 50 and 100
\* that a step writes
WrittenBands ==
  {k \in DOMAIN cache' :
     /\ k[3] \in Tones /\ k[4] \in {50, 100}
     /\ (k \notin DOMAIN cache \/ cache'[k] # cache[k])}

\* C25: a casual or business band at level 50 or 100 is written to the cache
\* only if the base entry of the same source request was written in an
\* earlier step (by this generation or by an earlier one of the same
\* request), and a generation records a base write only when the base
\* entry is in the cache.
C25_BaseWrittenFirst ==
  [][/\ \A k \in WrittenBands :
          \E r \in RunIds : /\ runs[r].wroteBase
                            /\ runs[r].src = k[1] /\ runs[r].lang = k[2]
     /\ \A r \in RunIds :
          (runs'[r].wroteBase /\ ~runs[r].wroteBase)
          => /\ BaseKey(runs'[r].src, runs'[r].lang) \in DOMAIN cache'
             /\ WrittenBands = {}]_vars

\* a generation that wrote the base has written its four bands
C25_Witness ==
  \E r \in RunIds :
    /\ runs[r].pc = "done" /\ runs[r].wroteBase
    /\ RequiredKeys(runs[r].src, runs[r].lang) \subseteq DOMAIN cache
    /\ BaseKey(runs[r].src, runs[r].lang) \in DOMAIN cache

\* a translatePartialSpacy call of a generation is awaiting its completion
Partial50InFlight(run, tone) == run.pc = "p50" /\ run.stage[tone] = "call"

PartialBusiness100InFlight(run) ==
  run.pc = "l100" /\ run.stage["business"] = "call"

\* C26: a translatePartialSpacy call is issued only in the step in which
\* generateMeaningDefinitions resolves, or in the step in which the
\* structure of the base translation resolves without flexible words (then
\* generateMeaningDefinitions returns without a call), or later; and the
\* meaning-definition call is issued only when the structure resolves.
C26_AnalysisBeforePartial ==
  [][\A r \in RunIds :
       /\ \A tone \in Tones :
            (Partial50InFlight(runs'[r], tone)
             /\ ~Partial50InFlight(runs[r], tone))
            => runs[r].pc \in {"tgtStruct", "defs"}
       /\ (PartialBusiness100InFlight(runs'[r])
           /\ ~PartialBusiness100InFlight(runs[r]))
          => runs[r].pc \in {"p50", "retry50"}
       /\ (runs'[r].pc = "defs" /\ runs[r].pc # "defs")
          => runs[r].pc = "tgtStruct"
       /\ (runs'[r].pc \in {"p50", "retry50"}
           /\ runs[r].pc \notin {"p50", "retry50"})
          => runs[r].pc \in {"tgtStruct", "defs"}]_vars

\* both level-50 partial calls are in flight, the base being known
C26_Witness ==
  \E r \in RunIds :
    /\ \A tone \in Tones : Partial50InFlight(runs[r], tone)
    /\ runs[r].full \in Trans

\* a level-100 generation call of a generation is awaiting its completion
Level100InFlight(run, tone) == run.pc = "l100" /\ run.stage[tone] = "call"

\* C27: the two level-50 calls come into flight in the same step; a
\* level-100 call comes into flight only in the step that resolves the last
\* pending level-50 call or retry, with both level-50 results known, and
\* not straight after the level-50 calls when one of their results equals
\* the base (its retry comes first); the two level-100 calls come into
\* flight in the same step.
C27_Level50TogetherThen100 ==
  [][\A r \in RunIds :
       /\ (\E tone \in Tones : /\ Partial50InFlight(runs'[r], tone)
                                /\ runs[r].pc # "p50")
          => \A tone \in Tones : Partial50InFlight(runs'[r], tone)
       /\ (\E tone \in Tones : /\ Level100InFlight(runs'[r], tone)
                                /\ runs[r].pc # "l100")
          => /\ \A tone \in Tones : Level100InFlight(runs'[r], tone)
             /\ runs[r].pc \in {"p50", "retry50"}
             /\ Cardinality({tone \in Tones :
                               runs[r].stage[tone] # "done"}) = 1
             /\ \A tone \in Tones : runs'[r].r50[tone] # NoRes
             /\ runs[r].pc = "p50"
                => \A tone \in Tones :
                     runs'[r].r50[tone].translation # runs'[r].full]_vars

\* both level-100 calls are in flight after a no-change retry of level 50
\* (only a retry leaves a level-50 result equal to the base)
C27_Witness ==
  \E r \in RunIds :
    /\ \A tone \in Tones : Level100InFlight(runs[r], tone)
    /\ \E tone \in Tones : runs[r].r50[tone].translation = runs[r].full

\* a no-change retry of level 50 is awaiting its completion
Retry50InFlight(run, tone) == run.pc = "retry50" /\ run.stage[tone] = "call"

\* C28: when both level-50 calls have resolved, a retry is issued exactly
\* for the tones whose result equals the base; when a retry resolves with a
\* result, that result replaces the level-50 result and no retry for that
\* tone is issued again, even if it equals the base; the level-50 band
\* written at the end holds the translation of the last level-50 result.
C28_OneRetry ==
  [][\A r \in RunIds, tone \in Tones :
       /\ (runs[r].pc = "p50" /\ runs'[r].pc \in {"retry50", "l100"})
          => (Retry50InFlight(runs'[r], tone)
              <=> runs'[r].r50[tone].translation = runs'[r].full)
       /\ (Retry50InFlight(runs'[r], tone) /\ ~Retry50InFlight(runs[r], tone))
          => runs[r].pc = "p50"
       /\ (Retry50InFlight(runs[r], tone) /\ ~Retry50InFlight(runs'[r], tone)
           /\ runs'[r].pc # "rejected")
          => /\ runs'[r].r50[tone].translation \in Trans
             /\ runs'[r].r50[tone].reverse_translation = RevOf(tone, 50)
             /\ runs'[r].pc \in {"retry50", "l100"}
       /\ (runs[r].pc \in {"l100", "retryB100"} /\ runs'[r].pc # "rejected")
          => runs'[r].r50[tone] = runs[r].r50[tone]
       /\ (runs'[r].pc = "done" /\ runs[r].pc # "done")
          => cache'[getCacheKey(tone, 50, runs[r].src, runs[r].lang)].translation
               = runs[r].r50[tone].translation]_vars

\* a retry has resolved with the base translation again, and the generation
\* has ended with that band
C28_Witness ==
  \E r \in RunIds, tone \in Tones :
    /\ runs[r].pc = "done"
    /\ runs[r].r50[tone].translation = runs[r].full
    /\ runs[r].r50[tone].reverse_translation = RevOf(tone, 50)
    /\ getCacheKey(tone, 50, runs[r].src, runs[r].lang) \in DOMAIN cache

\* C29: when the modality guard rejects the business-100 partial result and
\* the business-50 band is returned in its place, that band is the band of
\* level 100 and no further call is made for it: no retry call is awaited
\* for a business-100 result that is the business-50 band.
C29_FallbackBandKept ==
  \A r \in RunIds :
    runs[r].pc = "retryB100"
    => runs[r].r100["business"] # runs[r].r50["business"]

\* C30: no step in which a structure analysis resolves rejects the
\* generation, and a step in which the meaning-definition call resolves
\* rejects it only with an AbortError; after a failed analysis or a failed
\* definition call the level-50 calls are issued, and a generation that
\* ends has its four casual/business bands of level 50 and 100 in the cache.
C30_AnalysisFailuresTolerated ==
  [][\A r \in RunIds :
       /\ (runs[r].pc \in {"srcStruct", "tgtStruct"}
           /\ runs'[r].pc # runs[r].pc)
          => runs'[r].pc \in {"baseCall", "defs", "p50"}
       /\ (runs[r].pc = "defs" /\ runs'[r].pc # "defs")
          => \/ runs'[r].pc = "p50"
             \/ runs'[r].pc = "rejected" /\ runs'[r].err = "abort"
       /\ ((runs'[r].structFailed /\ ~runs[r].structFailed)
           \/ (runs'[r].defsFailed /\ ~runs[r].defsFailed))
          => \A tone \in Tones : Partial50InFlight(runs'[r], tone)
       /\ (runs'[r].pc = "done" /\ runs[r].pc # "done")
          => RequiredKeys(runs[r].src, runs[r].lang) \subseteq DOMAIN cache']_vars

\* a generation has ended with its four bands cached after its
\* meaning-definition call failed
C30_Witness ==
  \E r \in RunIds :
    /\ runs[r].pc = "done" /\ runs[r].defsFailed
    /\ RequiredKeys(runs[r].src, runs[r].lang) \subseteq DOMAIN cache

\* a generation has ended with its four bands cached after the analysis of
\* the base translation failed
C30_WitnessAnalysis ==
  \E r \in RunIds :
    /\ runs[r].pc = "done" /\ runs[r].structFailed
    /\ RequiredKeys(runs[r].src, runs[r].lang) \subseteq DOMAIN cache

\* the three cache keys of the custom band of a custom-tone request
CustomKeys(req) ==
  {getCacheKeyCustom(b, req.src, req.toneText, req.lang) : b \in UI_TONE_LEVELS}

\* C31: a custom-tone request whose three levels are not all cached issues
\* one completion call and no other; the step in which that call resolves
\* writes its result (translation and reverse translation) to the cache
\* entries of levels 0, 50 and 100 of the custom band; a request that ended
\* issues nothing more; and the cached levels of a custom band always hold
\* the same translation and reverse translation.
C31_CustomSingleCall ==
  [][/\ \A i \in CustomIds :
          /\ (customs[i].pc = "unused" /\ customs'[i].pc # "unused")
             => IF customAllCached(cache, customs'[i].src, customs'[i].lang,
                                   customs'[i].toneText)
                THEN customs'[i].pc = "hit" /\ customs'[i].calls = 0
                     /\ cache' = cache
                ELSE customs'[i].pc = "call" /\ customs'[i].calls = 1
          /\ (customs[i].pc = "call" /\ customs'[i].pc # "call")
             => /\ customs'[i].calls = 1
                /\ responses' = responses + 1
                /\ customs'[i].pc \in {"done", "rejected"}
                /\ customs'[i].pc = "rejected" => cache' = cache
                /\ customs'[i].pc = "done"
                   => \A k \in CustomKeys(customs[i]) :
                        /\ k \in DOMAIN cache'
                        /\ cache'[k].translation = customs'[i].result.translation
                        /\ cache'[k].reverseTranslation =
                             customs'[i].result.reverse_translation
          /\ customs[i].pc \in {"done", "rejected", "hit"}
             => customs'[i] = customs[i]
     /\ \A k \in DOMAIN cache' :
          k[3] = "custom"
          => \A b \in UI_TONE_LEVELS :
               LET kb == getCacheKeyCustom(b, k[1], k[5], k[2])
               IN /\ kb \in DOMAIN cache'
                  /\ cache'[kb].translation = cache'[k].translation
                  /\ cache'[kb].reverseTranslation =
                       cache'[k].reverseTranslation]_vars

\* a custom-tone request has ended after its one call, and the three levels
\* of its band hold the result of that call
C31_Witness ==
  \E i \in CustomIds :
    /\ customs[i].pc = "done" /\ customs[i].calls = 1
    /\ customs[i].result.translation \in Trans
    /\ \A k \in CustomKeys(customs[i]) :
         /\ k \in DOMAIN cache
         /\ cache[k].translation = customs[i].result.translation
         /\ cache[k].reverseTranslation = "rev_custom"

\* a generation that handleConvert awaits because a slider position is locked
LockedRequest(run) == run.awaited /\ run.kind = "all"

\* the key of the band at the locked slider position, for a generation
LockKey(run) ==
  LET tb == sliderToToneBucket(LockedPosition)
  IN getCacheKey(tb.tone, tb.bucket, run.src, run.lang)

C33_CachedTranslationsKanaFree ==
  (call.fn \in {"applyTranslationLanguageGuard"} \cup FixFunctions
   /\ call.lang \notin {"ja", "zh"})
  => ~hasKana(call.result.translation)

\* a fix for an English target returned, unchanged, a completion that mixes
\* Latin letters and kana
C33_FixKeepsKana ==
  /\ call.fn \in FixFunctions /\ call.lang = "en"
  /\ call.arg.translation = <<97, 12391>>
  /\ call.result.translation = call.arg.translation

\* the calls of verifyAndFixOneBand in program order, as pairs (position
\* before a response, position after it)
TaskTransitions ==
  {<<"none", "verifying">>, <<"verifying", "fixM">>, <<"verifying", "fixN">>,
   <<"verifying", "ended">>, <<"fixM", "fixN">>, <<"fixM", "ended">>,
   <<"fixN", "ended">>}

StaleTask(r, b) == tasks[r][b].src # previewSourceText \/ r # submits

\* C35: a call of a verification task that was started for a previous source
\* text or by an earlier generation comes back without changing the
\* verification status of its (tone, level) band, which is the status shown
\* for that band of the request on screen.
C35_StaleTaskLeavesStatus ==
  [][\A r \in RunIds, b \in BandKeys :
       (TaskStep(r, b) /\ StaleTask(r, b))
       => verificationStatus'[b] = verificationStatus[b]]_vars

\* the band of the text on screen shows the status passed, set by the task
\* of another source text, while no task of the text on screen has run
C35_ForeignStatusShown ==
  \E r \in RunIds, b \in BandKeys :
    /\ previewSourceText # "" /\ submits = 2 /\ r = 1
    /\ tasks[r][b].pc = "ended" /\ tasks[r][b].src # previewSourceText
    /\ runs[2].pc # "done"
    /\ verificationStatus[b] = "passed"

\* C36: every cache entry was produced for the current conversation partner:
\* its key carries the language of that partner.
C36_NoEntryOfPreviousPartner ==
  \A k \in DOMAIN cache : k[2] = Language(partner)

\* after a change of partner, a generation started for the previous partner
\* has ended and its four bands are in the cache
C36_PreviousPartnerBandsCached ==
  \E r \in RunIds :
    /\ runs[r].pc = "done" /\ runs[r].lang # Language(partner)
    /\ RequiredKeys(runs[r].src, runs[r].lang) \subseteq DOMAIN cache

\* C37: a lookup through translationCacheRef.current made in the task that
\* called updateTranslationCache, after the call, finds the entry written.
C37_ReadYourWrites ==
  call.fn = "lookup" => call.found /\ call.observed = call.written

\* the handler looked up the base entry it had just written, found nothing,
\* and left the preview empty while showing it
C37_StaleLookup ==
  /\ call.fn = "lookup" /\ ~call.found
  /\ showPreview /\ preview = NoPreview
  /\ call.key \in DOMAIN translateDraft.queued

\* C38: provided every call of a verification task returns or fails, a band
\* whose status is verifying or fixing reaches passed or idle (null); the
\* behaviours in which a call of a task of the band stays unanswered (the
\* bound on the answers is reached while the task waits) are outside the
\* proviso.
C38_VerificationSettles ==
  \A b \in BandKeys :
    (verificationStatus[b] \in {"verifying", "fixing"})
      ~> \/ verificationStatus[b] \in {"passed", "null"}
         \/ /\ responses = MaxResponses
            /\ \E r \in RunIds : tasks[r][b].pc \in {"verifying", "fixM", "fixN"}

\* a band went through verifying and fixing and is passed: its task has made
\* a naturalness fix and ended, and no other task of the band is waiting
C38_Witness ==
  \E r \in RunIds, b \in BandKeys :
    LET k == getCacheKey(b[1], b[2], runs[r].src, runs[r].lang)
    IN /\ tasks[r][b].pc = "ended"
       /\ \A q \in RunIds : tasks[q][b].pc \in {"none", "ended"}
       /\ k \in DOMAIN cache
       /\ cache[k].reverseTranslation = "rev_fixN"
       /\ verificationStatus[b] = "passed"

\* every generation and every verification task of the request on the
\* translate screen has finished, and no render is due
DraftSettled ==
  /\ previewSourceText # "" /\ showPreview /\ ~isCustomActive
  /\ ~isTranslating /\ DraftIdle
  /\ \A r \in RunIds :
       runs[r].src = previewSourceText
       => /\ runs[r].pc \in {"done", "hit", "rejected"}
          /\ \A b \in BandKeys : tasks[r][b].pc \in {"none", "ended"}

\* C39: once every generation and verification task of the displayed request
\* has finished, the translation and the reverse translation displayed for
\* the band the slider selects are those of the cache entry of that band.
C39_SettledPreviewShowsCache ==
  DraftSettled /\ PreviewKey \in DOMAIN cache
  => /\ preview.translation = cache[PreviewKey].translation
     /\ preview.reverseTranslation = cache[PreviewKey].reverseTranslation

\* the request is settled, the slider selects the base band, and the preview
\* shows the fix of a tone band written by the last task to end
C39_FixShownForBaseBand ==
  /\ DraftSettled /\ sliderValue = 0
  /\ PreviewKey \in DOMAIN cache
  /\ preview.reverseTranslation \in {"rev_fixM", "rev_fixN"}
  /\ cache[PreviewKey].reverseTranslation = previewSourceText
  /\ \E r \in RunIds, b \in BandKeys : tasks[r][b].pc = "ended"

\* the keys of the base band and of the level-0 casual and business bands
Level0Keys(c) == {k \in DOMAIN c : Len(k) = 4 /\ k[4] = 0}

\* C40: the base entry and the level-0 casual and business entries of a
\* source text have the source text as reverse translation, and the level-0
\* entries exist only beside a base entry and carry its translation.
C40_Level0MirrorsBase ==
  \A k \in Level0Keys(cache) :
    /\ cache[k].reverseTranslation = k[1]
    /\ BaseKey(k[1], k[2]) \in DOMAIN cache
    /\ cache[k].translation = cache[BaseKey(k[1], k[2])].translation

\* the base and both level-0 entries of a request are cached, its tone bands
\* are written, and one of them has been replaced by a fix
C40_Witness ==
  \E r \in RunIds :
    /\ runs[r].pc = "done"
    /\ {getCacheKey(tone, 0, runs[r].src, runs[r].lang) :
          tone \in Tones \cup {"_base"}} \subseteq DOMAIN cache
    /\ \E b \in BandKeys :
         LET k == getCacheKey(b[1], b[2], runs[r].src, runs[r].lang)
         IN /\ k \in DOMAIN cache
            /\ cache[k].reverseTranslation \in {"rev_fixM", "rev_fixN"}

====
